---------------------------- MODULE Spec2Model ----------------------------
(***************************************************************************)
(* A model of the gke-autoneg-controller: the diff of the actual and the   *)
(* intended autoneg status (ReconcileStatus), its application to the       *)
(* backend services of the load balancer through the compute API           *)
(* (ReconcileBackends), and the reconcile pass over an annotated Service   *)
(* (getStatuses, ServiceReconciler.Reconcile).                             *)
(*                                                                         *)
(* Conventions.                                                            *)
(*   - A Go map is a function with a finite DOMAIN; the empty map and the  *)
(*     nil map are both <<>>.  A lookup of a missing key yields the zero   *)
(*     value of the element type.                                          *)
(*   - An optional value (a Go pointer to int32, bool) is <<>> when nil,   *)
(*     and <<v>> when set.                                                 *)
(*   - float64 rates and connections are integers; a capacity scaler f is  *)
(*     the integer 100*f (a percentage).                                   *)
(*   - A backend group URL .../zones/<zone>/networkEndpointGroups/<neg> is *)
(*     the pair <<zone, neg>> of numbers, ordered as the URL strings are.  *)
(***************************************************************************)
EXTENDS Integers, Sequences, FiniteSets, TLC

(***************************************************************************)
(* Generic helpers                                                         *)
(***************************************************************************)
Range(s) == {s[i] : i \in DOMAIN s}

\* m[k] of a Go map, zero when k is missing
Lookup(m, k, zero) == IF k \in DOMAIN m THEN m[k] ELSE zero


(***************************************************************************)
(* types.go                                                                *)
(***************************************************************************)
\* the zero AutonegNEGConfig
AutonegNEGConfig ==
    [Name |-> "", Region |-> "", Rate |-> 0, Connections |-> 0,
     CustomMetrics |-> <<>>, InitialCapacity |-> <<>>, CapacityScaler |-> <<>>]

\* the zero NEGStatus
NEGStatus == [NEGs |-> <<>>, Zones |-> <<>>]

\* AutonegStatus{AutonegConfig, NEGStatus, AutonegSyncConfig}; sync is <<>>
\* (nil) or <<c>> with c the optional CapacityScaler of the sync config
AutonegStatus(bs, neg, sync) ==
    [BackendServices |-> bs, NEGs |-> neg.NEGs, Zones |-> neg.Zones,
     AutonegSyncConfig |-> sync]

\* the zero Backends bundle
Backends == [name |-> "", region |-> "", backends |-> <<>>]

\* s.BackendServices[port][name], the zero config when either key is missing
ConfigOf(s, port, name) ==
    Lookup(Lookup(s.BackendServices, port, <<>>), name, AutonegNEGConfig)

(***************************************************************************)
(* autoneg.go: AutonegStatus.Backend                                       *)
(***************************************************************************)
\* the upper end only
AtMostHundred(c) == c <= 100

InPercentRange(c) == c >= 0 /\ c <= 100

capacityScalerOf(cfg) ==
    LET fromInitial ==
            IF cfg.InitialCapacity # <<>> /\ InPercentRange(cfg.InitialCapacity[1])
            THEN cfg.InitialCapacity[1] ELSE 100
    IN  IF cfg.CapacityScaler # <<>> /\ InPercentRange(cfg.CapacityScaler[1])
        THEN cfg.CapacityScaler[1] ELSE fromInitial

Backend(s, name, port, group) ==
    LET cfg == ConfigOf(s, port, name)
    IN  IF cfg.Rate > 0
        THEN [Group |-> group, BalancingMode |-> "RATE",
              MaxRatePerEndpoint |-> cfg.Rate, MaxConnectionsPerEndpoint |-> 0,
              CapacityScaler |-> capacityScalerOf(cfg)]
        ELSE [Group |-> group, BalancingMode |-> "CONNECTION",
              MaxRatePerEndpoint |-> 0, MaxConnectionsPerEndpoint |-> cfg.Connections,
              CapacityScaler |-> capacityScalerOf(cfg)]

(***************************************************************************)
(* autoneg.go: getGroup, sortBackends, ReconcileStatus                     *)
(***************************************************************************)
\* a URL that leaves the zone out
zonelessGroup(project, zone, neg) == <<1, neg>>

getGroup(project, zone, neg) == <<zone, neg>>

\* the order of the group URLs as strings
GroupLess(g, h) == g[1] < h[1] \/ (g[1] = h[1] /\ g[2] < h[2])

RECURSIVE sortGroups(_)
sortGroups(S) ==
    IF S = {} THEN <<>>
    ELSE LET m == CHOOSE g \in S : \A h \in S \ {g} : GroupLess(g, h)
         IN  <<m>> \o sortGroups(S \ {m})

\* the backend of the first of the groups only
firstBackend(s, name, port, groups) ==
    LET gs == sortGroups(groups)
    IN  [i \in 1..(IF gs = <<>> THEN 0 ELSE 1) |-> Backend(s, name, port, gs[i])]

\* a set of groups as the sorted list of the status's backends for them
sortBackends(s, name, port, groups) ==
    LET gs == sortGroups(groups)
    IN  [i \in 1..Len(gs) |-> Backend(s, name, port, gs[i])]

\* port -> the group of the first zone only
firstZoneGroups(project, s) ==
    [port \in DOMAIN s.NEGs |->
        {getGroup(project, s.Zones[i], s.NEGs[port]) : i \in DOMAIN s.Zones \cap {1}}]

\* port -> set of groups (actualBE, intendedBE)
groupsByPort(project, s) ==
    [port \in DOMAIN s.NEGs |->
        {getGroup(project, s.Zones[i], s.NEGs[port]) : i \in DOMAIN s.Zones}]

\* every entry is taken as staying on its backend service
neverMoves(actualName, intendedName) == TRUE

\* "test to see if we are changing backend services": the entry stays on
\* the backend service the actual status records for it
keepsBackendService(actualName, intendedName) ==
    actualName = intendedName \/ actualName = ""

ReconcileStatus(project, actual, intended) ==
    LET actualBE   == groupsByPort(project, actual)
        intendedBE == groupsByPort(project, intended)
        aBS == actual.BackendServices
        iBS == intended.BackendServices
        aGroups(port) == Lookup(actualBE, port, {})
        aKeys(port) == DOMAIN Lookup(aBS, port, <<>>)
        iKeys(port) == DOMAIN Lookup(iBS, port, <<>>)
        \* "see if there are removed backend services"
        gone(port) == aKeys(port) \ iKeys(port)
        fullRemove(port, aname) ==
            [name |-> aBS[port][aname].Name, region |-> aBS[port][aname].Region,
             backends |-> sortBackends(actual, aname, port, aGroups(port))]
        upsertOf(port, bname) ==
            IF bname \in iKeys(port)
            THEN [name |-> iBS[port][bname].Name, region |-> iBS[port][bname].Region,
                  backends |-> sortBackends(intended, bname, port, intendedBE[port])]
            ELSE [name |-> aBS[port][bname].Name, region |-> aBS[port][bname].Region,
                  backends |-> <<>>]
        removeOf(port, bname) ==
            IF bname \in iKeys(port)
            THEN LET be == iBS[port][bname]
                 IN  IF bname \in aKeys(port)
                     THEN IF keepsBackendService(aBS[port][bname].Name, be.Name)
                          THEN \* find backends to be deleted
                               [name |-> be.Name, region |-> be.Region,
                                backends |-> sortBackends(actual, bname, port,
                                                 aGroups(port) \ intendedBE[port])]
                          ELSE \* moving to a different backend service
                               fullRemove(port, bname)
                     ELSE \* add empty remove if adding to a mint backend service
                          [name |-> be.Name, region |-> be.Region, backends |-> <<>>]
            ELSE fullRemove(port, bname)
        \* the loop over the ports of intendedBE
        ups1 == [port \in DOMAIN intendedBE |->
                    [bname \in iKeys(port) \cup gone(port) |-> upsertOf(port, bname)]]
        rem1 == [port \in DOMAIN intendedBE |->
                    [bname \in iKeys(port) \cup gone(port) |-> removeOf(port, bname)]]
        \* "see if some configs were removed entirely"
        dropped == {port \in DOMAIN aBS : port \notin DOMAIN iBS}
        rem2 == [port \in DOMAIN rem1 \cup dropped |->
                    IF port \in dropped
                    THEN [aname \in DOMAIN Lookup(rem1, port, <<>>) \cup aKeys(port) |->
                            IF aname \in aKeys(port) THEN fullRemove(port, aname)
                            ELSE rem1[port][aname]]
                    ELSE rem1[port]]
    IN  [removes |-> rem2, upserts |-> ups1]

(***************************************************************************)
(* The compute API: backend services and long-running operations           *)
(***************************************************************************)
\* a backend-service resource of the API; one that does not exist has
\* exists = FALSE.  etag is the version token of the resource.
NoBackendService == [exists |-> FALSE, etag |-> 0, backends |-> <<>>]

\* the wire form of one backend of a patch request: compute.Backend marshals
\* capacityScaler with omitempty, so a zero value is left out unless
\* ForceSendFields names it
wireBackend(be, force) ==
    [Group |-> be.Group, BalancingMode |-> be.BalancingMode,
     MaxRatePerEndpoint |-> be.MaxRatePerEndpoint,
     MaxConnectionsPerEndpoint |-> be.MaxConnectionsPerEndpoint,
     CapacityScaler |-> IF be.CapacityScaler # 0 \/ force
                        THEN <<be.CapacityScaler>> ELSE <<>>]

\* the backend the API stores for a backend received in a patch: the
\* backends list is replaced as a whole (JSON merge patch), and a backend
\* sent without capacityScaler gets the default
storedBackend(w) ==
    [Group |-> w.Group, BalancingMode |-> w.BalancingMode,
     MaxRatePerEndpoint |-> w.MaxRatePerEndpoint,
     MaxConnectionsPerEndpoint |-> w.MaxConnectionsPerEndpoint,
     CapacityScaler |-> IF w.CapacityScaler = <<>> THEN 100
                        ELSE w.CapacityScaler[1]]

(***************************************************************************)
(* autoneg.go: getBackendService, updateBackends, ReconcileBackends        *)
(***************************************************************************)
\* the result of getBackendService against the resource r of the API: the
\* error and the in-memory compute.BackendService, which keeps the ETag
\* header of the response it came from; svc.Header.Get("ETag") of a resource
\* that was not fetched is the empty string, here -1
getBackendService(name, r) ==
    IF r.exists
    THEN [err |-> "nil",
          svc |-> [Name |-> name, Backends |-> r.backends, ETag |-> r.etag]]
    ELSE [err |-> "errNotFound",
          svc |-> [Name |-> "", Backends |-> <<>>, ETag |-> -1]]

\* "If the backend service is gone, we construct a BackendService with the
\* same name and an empty list of backends."
goneBackendService(name) == [Name |-> name, Backends |-> <<>>, ETag |-> -1]

\* the index of the first backend of bes with the group, 0 when none
RECURSIVE indexOfGroup(_, _, _)
indexOfGroup(bes, group, i) ==
    IF i > Len(bes) THEN 0
    ELSE IF bes[i].Group = group THEN i
    ELSE indexOfGroup(bes, group, i + 1)

\* bes without its i-th element (copy(s[i:], s[i+1:]); s = s[:len(s)-1])
deleteAt(bes, i) == SubSeq(bes, 1, i - 1) \o SubSeq(bes, i + 1, Len(bes))

\* "Remove backends in the list to be deleted": the backends left and
\* whether one was removed (svcUpdated)
RECURSIVE removeBackends(_, _)
removeBackends(bes, dels) ==
    IF dels = <<>> THEN [backends |-> bes, svcUpdated |-> FALSE]
    ELSE LET i == indexOfGroup(bes, Head(dels).Group, 1)
             rest == removeBackends(IF i = 0 THEN bes ELSE deleteAt(bes, i), Tail(dels))
         IN  [backends |-> rest.backends, svcUpdated |-> (i # 0) \/ rest.svcUpdated]

\* whether the sync configuration asks to propagate the capacity scaler
syncsCapacityScaler(intended) ==
    /\ intended.AutonegSyncConfig # <<>>
    /\ intended.AutonegSyncConfig[1] = <<TRUE>>

\* an existing backend updated from the upsert entry u, capacity scaler
\* included whatever the sync configuration says
overwrittenBackend(be, u, intended) ==
    [be EXCEPT !.MaxRatePerEndpoint = u.MaxRatePerEndpoint,
               !.MaxConnectionsPerEndpoint = u.MaxConnectionsPerEndpoint,
               !.CapacityScaler = u.CapacityScaler]

\* an existing backend updated from the upsert entry u
updatedBackend(be, u, intended) ==
    [be EXCEPT !.MaxRatePerEndpoint = u.MaxRatePerEndpoint,
               !.MaxConnectionsPerEndpoint = u.MaxConnectionsPerEndpoint,
               !.CapacityScaler = IF syncsCapacityScaler(intended)
                                  THEN u.CapacityScaler ELSE @]

\* whether a newly appended backend has its capacity scaler force-sent
forcesInitialCapacity(intended, port, idx) ==
    /\ port \in DOMAIN intended.BackendServices
    /\ idx \in DOMAIN intended.BackendServices[port]
    /\ intended.BackendServices[port][idx].InitialCapacity # <<>>

\* "Add or update any new backends to the list": the backends and the
\* forceCapacity indexes (0-based, as in the code) after the upserts ups
RECURSIVE upsertBackends(_, _, _, _, _, _)
upsertBackends(bes, force, ups, intended, port, idx) ==
    IF ups = <<>> THEN [backends |-> bes, forceCapacity |-> force]
    ELSE LET u == Head(ups)
             i == indexOfGroup(bes, u.Group, 1)
         IN  IF i # 0
             THEN upsertBackends([bes EXCEPT ![i] = updatedBackend(bes[i], u, intended)],
                                 force, Tail(ups), intended, port, idx)
             ELSE upsertBackends(Append(bes, u),
                                 IF forcesInitialCapacity(intended, port, idx)
                                 THEN force \cup {Len(bes)} ELSE force,
                                 Tail(ups), intended, port, idx)

\* "for beidx, be := range newSvc.Backends { if be.CapacityScaler == 0 ..."
forceZeroCapacity(bes, force) ==
    force \cup {i - 1 : i \in {j \in DOMAIN bes : bes[j].CapacityScaler = 0}}

\* the body of the patch request updateBackends sends for the backends bes:
\* <<>> stands for NullFields = ["Backends"]
patchBody(bes, forceCapacity) ==
    [i \in DOMAIN bes |-> wireBackend(bes[i], (i - 1) \in forceCapacity)]

\* the old service is never saved on its own
neverSavesOldService(upsert, remove, svcUpdated) == FALSE

\* "If we are changing backend services, save the old service"
savesOldService(upsert, remove, svcUpdated) ==
    upsert.name # remove.name /\ svcUpdated

\* whether the upserted service is patched
savesNewService(upsert) == Len(upsert.backends) > 0

\* checkOperation: the error for an operation status
checkOperation(op) ==
    CASE op.Status = "PENDING" -> "operation pending"
      [] op.Status = "RUNNING" -> "operation running"
      [] op.Status = "DONE" -> IF op.Error THEN "operation failed" ELSE "nil"
      [] OTHER -> "unknown operation state"

(***************************************************************************)
(* State                                                                   *)
(***************************************************************************)
VARIABLES
    backendServices,  \* the API: <<name, region>> -> backend-service resource
    operation,        \* the long-running operation of the last accepted patch
    actual,           \* ReconcileBackends' first argument
    intended,         \* ReconcileBackends' second argument
    rb,               \* ReconcileBackends' position and local variables
    lastPatch,        \* the last patch request sent and the API's answer
    apiCalls,         \* the backend services fetched or patched in this pass
    external,         \* the backend services another actor wrote in this pass
    svc,              \* the Service object of the cluster
    rec,              \* Reconcile's position and local variables
    events,           \* the events recorded on the Service
    reconciler,       \* the ServiceReconciler's configuration
    invocation        \* a call of one of the package's functions on its own

vars == <<backendServices, operation, actual, intended, rb, lastPatch, apiCalls,
          external, svc, rec, events, reconciler, invocation>>

rbVars == <<backendServices, operation, actual, intended, rb, lastPatch, apiCalls,
            external>>
recVars == <<svc, rec, events, reconciler, invocation>>

project == "project"

\* no function is called on its own
NoCall == [fn |-> "none", returned |-> FALSE]

\* the resource behind getBackendService(name, region)
resourceOf(store, name, region) == Lookup(store, <<name, region>>, NoBackendService)

NoOperation == [Status |-> "NONE", Error |-> FALSE]
NoPatch == [name |-> "", region |-> "", ifMatch |-> <<>>, etag |-> <<>>,
            fetched |-> <<>>, before |-> <<>>, body |-> <<>>, answer |-> "none"]

\* ReconcileBackends before it is called
rbIdle ==
    [pc |-> "idle", removes |-> <<>>, upserts |-> <<>>, todo |-> {},
     port |-> "", idx |-> "", oldSvc |-> goneBackendService(""),
     newSvc |-> goneBackendService(""), oldFetched |-> <<>>, newFetched |-> <<>>,
     svcUpdated |-> FALSE, forceCapacity |-> {}, polls |-> 0, polled |-> "none",
     err |-> "nil"]

\* the (port, idx) pairs of "for port, _removes := range removes { for idx,
\* remove := range _removes {"
pairsOf(removes) ==
    UNION {{<<port, idx>> : idx \in DOMAIN removes[port]} : port \in DOMAIN removes}

\* upserts[port][idx], the zero Backends when missing
upsertAt(upserts, port, idx) == Lookup(Lookup(upserts, port, <<>>), idx, Backends)

\* the entry of ReconcileBackends
rbCalled(a, i) ==
    LET r == ReconcileStatus(project, a, i)
    IN  [rbIdle EXCEPT !.pc = "next", !.removes = r.removes, !.upserts = r.upserts,
                       !.todo = pairsOf(r.removes)]

removeOf(r) == r.removes[r.port][r.idx]
upsertOf(r) == upsertAt(r.upserts, r.port, r.idx)

\* the number of polls of one operation that fit into maxElapsedTime
MaxPolls == 2

\* the number of writes of other actors to backend services during a pass
MaxExternalWrites == 1

(***************************************************************************)
(* ReconcileBackends, one action per API call; each action runs the code   *)
(* from the call to the next call.                                         *)
(***************************************************************************)
\* from "Add or update any new backends to the list" to the patch of the
\* upserted service, or to the next pair
afterOldSaved(r) ==
    LET ups == upsertBackends(r.newSvc.Backends, r.forceCapacity,
                              upsertOf(r).backends, intended, r.port, r.idx)
        r2 == [r EXCEPT !.newSvc.Backends = ups.backends,
                        !.forceCapacity = forceZeroCapacity(ups.backends, ups.forceCapacity)]
    IN  IF savesNewService(upsertOf(r))
        THEN [r2 EXCEPT !.pc = "patchNew"]
        ELSE [r2 EXCEPT !.pc = "next"]

\* from "Remove backends in the list to be deleted" on; newSvc is oldSvc
\* itself when both bundles name the same backend service
afterFetches(r) ==
    LET rem == removeBackends(r.oldSvc.Backends, removeOf(r).backends)
        old == [r.oldSvc EXCEPT !.Backends = rem.backends]
        r2 == [r EXCEPT !.oldSvc = old, !.svcUpdated = rem.svcUpdated,
                        !.newSvc = IF upsertOf(r).name = removeOf(r).name
                                   THEN old ELSE @]
    IN  IF savesOldService(upsertOf(r), removeOf(r), rem.svcUpdated)
        THEN [r2 EXCEPT !.pc = "patchOld"]
        ELSE afterOldSaved(r2)

\* the error is kept and the loop goes on with the next pair
skipped(r, e) == [r EXCEPT !.pc = "next", !.err = e]

\* "return", "return err" with err set
failed(r, e) == [r EXCEPT !.pc = "returned", !.err = e]

\* the pairs the range loops may take next: all pairs of a port are taken
\* before those of another port, in any order
nextPairs(r) ==
    IF \E pr \in r.todo : pr[1] = r.port
    THEN {pr \in r.todo : pr[1] = r.port}
    ELSE r.todo

\* oldSvc, err = b.getBackendService(remove.name, remove.region)
GetOld ==
    /\ rb.pc = "next"
    /\ \E pr \in nextPairs(rb), fault \in BOOLEAN :
        LET r0 == [rb EXCEPT !.port = pr[1], !.idx = pr[2], !.todo = @ \ {pr},
                             !.svcUpdated = FALSE, !.polls = 0]
            remove == removeOf(r0)
            got == getBackendService(remove.name,
                       resourceOf(backendServices, remove.name, remove.region))
            old == IF got.err = "errNotFound"
                   THEN goneBackendService(remove.name) ELSE got.svc
            r1 == [r0 EXCEPT !.oldSvc = old, !.oldFetched = old.Backends,
                             !.newSvc = old, !.newFetched = old.Backends]
        IN  /\ apiCalls' = apiCalls \cup {[verb |-> "get", name |-> remove.name]}
            /\ rb' = IF fault THEN failed(r0, "apiError")
                     ELSE IF upsertOf(r0).name # remove.name
                          THEN [r1 EXCEPT !.pc = "getNew"]
                          ELSE afterFetches(r1)
    /\ UNCHANGED <<backendServices, operation, actual, intended, lastPatch, external>>

\* newSvc, err = b.getBackendService(upsert.name, upsert.region)
GetNew ==
    /\ rb.pc = "getNew"
    /\ \E fault \in BOOLEAN :
        LET upsert == upsertOf(rb)
            got == getBackendService(upsert.name,
                       resourceOf(backendServices, upsert.name, upsert.region))
        IN  /\ apiCalls' = apiCalls \cup {[verb |-> "get", name |-> upsert.name]}
            /\ rb' = IF fault THEN failed(rb, "apiError")
                     ELSE IF got.err # "nil" THEN failed(rb, got.err)
                     ELSE afterFetches([rb EXCEPT !.newSvc = got.svc,
                                                  !.newFetched = got.svc.Backends])
    /\ UNCHANGED <<backendServices, operation, actual, intended, lastPatch, external>>

\* a patch request without an If-match header
noIfMatchHeader(s) == <<>>

\* p.Header().Set("If-match", svc.Header.Get("ETag")): the headers of the
\* patch request, <<>> when it has no If-match header
ifMatchHeader(s) == <<s.ETag>>

\* the API's answers to a patch of the resource r: a request with an
\* If-match header is refused unless the header is the resource's ETag; an
\* accepted patch starts an operation, which may fail
patchAnswers(r, ifMatch) ==
    IF ~r.exists THEN {"notFound"}
    ELSE IF ifMatch # <<>> /\ ifMatch # <<r.etag>> THEN {"preconditionFailed"}
    ELSE {"accepted", "acceptedFailing"}

\* updateBackends up to the answer to the patch request, for the old
\* (remove) or the new (upsert) backend service
Patch(old) ==
    /\ rb.pc = IF old THEN "patchOld" ELSE "patchNew"
    /\ LET target == IF old THEN removeOf(rb) ELSE upsertOf(rb)
           mem == IF old THEN rb.oldSvc ELSE rb.newSvc
           key == <<target.name, target.region>>
           r == resourceOf(backendServices, target.name, target.region)
           body == patchBody(mem.Backends, rb.forceCapacity)
       IN  \E answer \in patchAnswers(r, ifMatchHeader(mem)) \cup {"apiError"} :
            /\ lastPatch' = [name |-> target.name, region |-> target.region,
                             ifMatch |-> ifMatchHeader(mem),
                             etag |-> IF r.exists THEN <<r.etag>> ELSE <<>>,
                             fetched |-> IF old THEN rb.oldFetched ELSE rb.newFetched,
                             before |-> r.backends, body |-> body, answer |-> answer]
            /\ apiCalls' = apiCalls \cup {[verb |-> "patch", name |-> target.name]}
            /\ IF answer \in {"accepted", "acceptedFailing"}
               THEN /\ operation' = [Status |-> "PENDING", Error |-> answer = "acceptedFailing"]
                    /\ backendServices' =
                          IF answer = "accepted"
                          THEN [backendServices EXCEPT ![key] =
                                  [exists |-> TRUE, etag |-> r.etag + 1,
                                   backends |-> [i \in DOMAIN body |-> storedBackend(body[i])]]]
                          ELSE backendServices
                    /\ rb' = [rb EXCEPT !.pc = IF old THEN "pollOld" ELSE "pollNew",
                                        !.polls = 0, !.polled = "none"]
               ELSE /\ rb' = failed(rb, answer)
                    /\ UNCHANGED <<backendServices, operation>>
    /\ UNCHANGED <<actual, intended, external>>

PatchOld == Patch(TRUE)
PatchNew == Patch(FALSE)

\* context.TODO(), the context both backoff.Retry calls are given: it is
\* never cancelled, whatever happens to the context of the caller
retryContext == [done |-> FALSE]

\* the retries go on whatever time has passed
neverElapsed(polls) == FALSE

\* backoff.WithMaxElapsedTime(maxElapsedTime): whether maxElapsedTime has
\* passed after one more run of the operation function
elapsed(polls) == polls + 1 >= MaxPolls

\* an operation goes from PENDING over RUNNING to DONE
statusRank(status) ==
    CASE status = "PENDING" -> 0 [] status = "RUNNING" -> 1 [] OTHER -> 2

\* one run of the operation function under backoff.Retry, on the status the
\* operation has reached by then: every error is retried until
\* maxElapsedTime has passed
Poll(old) ==
    /\ rb.pc = IF old THEN "pollOld" ELSE "pollNew"
    /\ \E status \in {"PENDING", "RUNNING", "DONE"}, fault \in BOOLEAN :
        LET op == [operation EXCEPT !.Status = status]
            e == IF fault THEN "apiError" ELSE checkOperation(op)
        IN  /\ statusRank(status) >= statusRank(operation.Status)
            /\ operation' = op
            /\ rb' = LET r == [rb EXCEPT !.polled = e]
                     IN  IF retryContext.done THEN failed(r, "context canceled")
                         ELSE IF e = "nil"
                         THEN IF old THEN afterOldSaved(r) ELSE [r EXCEPT !.pc = "next"]
                         ELSE IF elapsed(rb.polls) THEN failed(r, e)
                         ELSE [r EXCEPT !.polls = @ + 1]
    /\ UNCHANGED <<backendServices, actual, intended, lastPatch, apiCalls, external>>

PollOld == Poll(TRUE)
PollNew == Poll(FALSE)

\* "return nil" after the loops
Return ==
    /\ rb.pc = "next"
    /\ rb.todo = {}
    /\ rb' = [rb EXCEPT !.pc = "returned", !.err = "nil"]
    /\ UNCHANGED <<backendServices, operation, actual, intended, lastPatch, apiCalls,
                   external>>

(***************************************************************************)
(* Another actor (another cluster's controller, an operator) registers or  *)
(* deregisters its own backend on a backend service during a pass.         *)
(***************************************************************************)
foreignBackend ==
    [Group |-> <<9, 9>>, BalancingMode |-> "RATE", MaxRatePerEndpoint |-> 7,
     MaxConnectionsPerEndpoint |-> 0, CapacityScaler |-> 0]

ExternalWrite ==
    /\ rb.pc \in {"getNew", "patchOld", "pollOld", "patchNew"}
    /\ Cardinality(external) < MaxExternalWrites
    /\ \E key \in DOMAIN backendServices \ external :
        LET r == backendServices[key]
            i == indexOfGroup(r.backends, foreignBackend.Group, 1)
        IN  /\ r.exists
            /\ backendServices' = [backendServices EXCEPT ![key] =
                    [r EXCEPT !.etag = @ + 1,
                              !.backends = IF i = 0 THEN Append(@, foreignBackend)
                                           ELSE deleteAt(@, i)]]
            /\ external' = external \cup {key}
    /\ UNCHANGED <<operation, actual, intended, rb, lastPatch, apiCalls>>

(***************************************************************************)
(* utils.go: generateServiceName, TrimFieldsEvenly                         *)
(***************************************************************************)
maxNameLength == 63

RECURSIVE sum(_)
sum(ns) == IF ns = <<>> THEN 0 ELSE Head(ns) + sum(Tail(ns))

RECURSIVE join(_, _)
join(fields, sep) ==
    IF fields = <<>> THEN ""
    ELSE IF Len(fields) = 1 THEN fields[1]
    ELSE fields[1] \o sep \o join(Tail(fields), sep)

\* fields cut to the lengths l, the first remaining of them one longer
trimmedTo(fields, l, remaining) ==
    [i \in DOMAIN fields |->
        SubSeq(fields[i], 1, IF i - 1 < remaining THEN l[i] + 1 ELSE l[i])]

\* "Distribute truncation evenly among the fields."
trimmedBy(max, fields, total) ==
    LET l == [i \in DOMAIN fields |->
                Len(fields[i]) - ((Len(fields[i]) * (total - max)) \div total) - 1]
    IN  trimmedTo(fields, l, max - sum(l))

\* the lengths after "Add fractional space that was rounded down."
lengths(max, fields, total) ==
    LET l == [i \in DOMAIN fields |->
                Len(fields[i]) - ((Len(fields[i]) * (total - max)) \div total) - 1]
    IN  [i \in DOMAIN fields |-> IF i - 1 < max - sum(l) THEN l[i] + 1 ELSE l[i]]

\* whether the call ends in a run-time panic: lengths[i]++ with i out of
\* range, or fields[i][:l] with l out of range
panics(max, fields) ==
    LET total == sum([i \in DOMAIN fields |-> Len(fields[i])])
        l == lengths(max, fields, total)
    IN  /\ max > 0
        /\ total > max
        /\ \/ max - sum(l) > Len(fields)
           \/ \E i \in DOMAIN fields : l[i] < 0 \/ l[i] > Len(fields[i])

\* the fields cut to a total length of at most max, longer fields cut more
TrimFieldsEvenly(max, fields) ==
    IF max <= 0 \/ sum([i \in DOMAIN fields |-> Len(fields[i])]) <= max THEN fields
    ELSE trimmedBy(max, fields, sum([i \in DOMAIN fields |-> Len(fields[i])]))

\* the byte of a character of a namespace, a name or a port
codeOf(c) ==
    LET alphabet == "abcdefghijklmnopqrstuvwxyz0123456789-"
    IN  CHOOSE i \in 1..Len(alphabet) : SubSeq(alphabet, i, i) = c

\* one hex digit of the digest of nameString: a checksum of its characters
\* stands for SHA-256
RECURSIVE checksum(_, _, _, _)
checksum(nameString, from, to, k) ==
    IF from > to THEN 0
    ELSE IF from = to THEN (codeOf(SubSeq(nameString, from, from)) * (from + k)) % 16
    ELSE (checksum(nameString, from, (from + to) \div 2, k)
          + checksum(nameString, ((from + to) \div 2) + 1, to, k)) % 16

hashDigit(nameString, k) ==
    LET n == checksum(nameString, 1, Len(nameString), k)
    IN  SubSeq("0123456789abcdef", n + 1, n + 1)

\* fmt.Sprintf("%x", sha256.Sum256([]byte(nameString)))[:8]: 8 hex digits
hashOf(nameString) == join([k \in 1..8 |-> hashDigit(nameString, k)], "")

\* a service name template is the list of its tags, the result of
\* strings.Split(serviceNameTemplate, "-")
IsValidServiceNameTemplate(tags) ==
    /\ tags # <<>>
    /\ \A i \in DOMAIN tags : tags[i] \in {"{namespace}", "{name}", "{port}", "{hash}"}

isFieldTag(tag) == tag \in {"{namespace}", "{name}", "{port}"}
isHashTag(tag) == tag = "{hash}"

\* the values of the template's tags other than {hash}
fieldsToTruncate(namespace, name, portStr, tags) ==
    LET fieldTags == SelectSeq(tags, isFieldTag)
    IN  [i \in DOMAIN fieldTags |->
            CASE fieldTags[i] = "{namespace}" -> namespace
              [] fieldTags[i] = "{name}" -> name
              [] OTHER -> portStr]

\* "63 - hashlength - numberOfHyphens"
maxNegLengthWoHash(tags) ==
    maxNameLength - Len(SelectSeq(tags, isHashTag)) * 8 - (Len(tags) - 1)

\* "form the final neg name string with hash"
nameFields(tags, truncFields, hash) ==
    [i \in DOMAIN tags |->
        IF tags[i] = "{hash}" THEN hash
        ELSE truncFields[Cardinality({j \in 1..i : tags[j] # "{hash}"})]]

generateServiceName(namespace, name, portStr, tags) ==
    join(nameFields(tags,
                    TrimFieldsEvenly(maxNegLengthWoHash(tags),
                                     fieldsToTruncate(namespace, name, portStr, tags)),
                    hashOf(join(<<namespace, name, portStr>>, "-"))),
         "-")

(***************************************************************************)
(* autoneg.go: the annotations and getStatuses.  An annotation value is    *)
(* a text: the JSON document it holds, or a text json.Unmarshal fails on.  *)
(***************************************************************************)
oldAutonegAnnotation == "anthos.cft.dev/autoneg"
autonegAnnotation == "controller.autoneg.dev/neg"
oldAutonegStatusAnnotation == "anthos.cft.dev/autoneg-status"
autonegStatusAnnotation == "controller.autoneg.dev/neg-status"
negStatusAnnotation == "cloud.google.com/neg-status"
negAnnotation == "cloud.google.com/neg"
oldAutonegFinalizer == "anthos.cft.dev/autoneg"
autonegFinalizer == "controller.autoneg.dev/neg"
autonegSyncAnnotation == "controller.autoneg.dev/sync"

\* the text of a JSON document of the type it is decoded to
jsonText(doc) == [ok |-> TRUE, doc |-> doc]

\* a text json.Unmarshal returns an error for: the empty string, a text
\* that is not JSON, a value of another type than the field it goes to
notJSON == [ok |-> FALSE]

\* annotations[key]; the empty string when the key is missing
valueOf(annotations, key) == Lookup(annotations, key, notJSON)

unmarshalFails(text) == ~text.ok

\* validateNewConfig: the capacities are percentages
validateNewConfig(config) ==
    IF \A port \in DOMAIN config : \A k \in DOMAIN config[port] :
            /\ config[port][k].InitialCapacity # <<>>
                  => InPercentRange(config[port][k].InitialCapacity[1])
            /\ config[port][k].CapacityScaler # <<>>
                  => InPercentRange(config[port][k].CapacityScaler[1])
    THEN "nil" ELSE "capacity must be between 0 and 100"

\* the zero Statuses, valid and err of getStatuses
Statuses ==
    [config |-> <<>>, status |-> AutonegStatus(<<>>, NEGStatus, <<>>),
     negStatus |-> NEGStatus, negConfig |-> {}, syncConfig |-> <<>>,
     newConfig |-> FALSE, oldConfig |-> [Name |-> "", Rate |-> 0],
     oldStatus |-> <<>>, valid |-> FALSE, err |-> "nil", returned |-> FALSE]

\* "return" with the error e
returns(st, e) == [st EXCEPT !.err = e, !.returned = TRUE]

\* every Service taken as one that has the autoneg annotation
anyService(annotations) == TRUE

\* "tmp, newOk := annotations[autonegAnnotation]"
usesNewMode(annotations) == autonegAnnotation \in DOMAIN annotations

\* "Read the current cloud.google.com/neg annotation": the document is the
\* set of the exposed ports
readNEGConfig(st, annotations) ==
    IF negAnnotation \notin DOMAIN annotations THEN st
    ELSE IF unmarshalFails(annotations[negAnnotation]) THEN returns(st, "json")
    ELSE [st EXCEPT !.negConfig = annotations[negAnnotation].doc]

\* one entry of the config annotation with its name and limits defaulted
\* "Use defaults if rate and connections have not been set"
withDefaultLimits(cfg, r) ==
    IF cfg.Rate = 0 /\ cfg.Connections = 0
    THEN IF r.MaxRatePerEndpointDefault > 0
         THEN [cfg EXCEPT !.Rate = r.MaxRatePerEndpointDefault]
         ELSE [cfg EXCEPT !.Connections = r.MaxConnectionsPerEndpointDefault]
    ELSE cfg

defaultedConfig(cfg, namespace, name, port, r) ==
    withDefaultLimits(
        IF cfg.Name = "" \/ ~r.AllowServiceName
        THEN [cfg EXCEPT !.Name = generateServiceName(namespace, name, port,
                                      r.ServiceNameTemplate)]
        ELSE cfg,
        r)

\* the first entry of a name is kept
firstOfName(cfgs) ==
    [n \in {cfgs[i].Name : i \in DOMAIN cfgs} |->
        cfgs[CHOOSE i \in DOMAIN cfgs :
                /\ cfgs[i].Name = n
                /\ \A j \in DOMAIN cfgs : cfgs[j].Name = n => i <= j]]

\* AutonegConfigTemp (port -> list of entries) as AutonegConfig (port ->
\* name -> entry): a later entry of a name replaces an earlier one
\* s.config.BackendServices[port][cfg.Name] = cfg, for the entries in order
byName(cfgs) ==
    [n \in {cfgs[i].Name : i \in DOMAIN cfgs} |->
        cfgs[CHOOSE i \in DOMAIN cfgs :
                /\ cfgs[i].Name = n
                /\ \A j \in DOMAIN cfgs : cfgs[j].Name = n => j <= i]]

configFromTemp(temp, namespace, name, r) ==
    [port \in DOMAIN temp |->
        byName([i \in DOMAIN temp[port] |->
                   defaultedConfig(temp[port][i], namespace, name, port, r)])]

\* "Is this service using autoneg in new mode?"
\* "Is this autoneg config valid?"
validated(st) ==
    IF validateNewConfig(st.config) # "nil"
    THEN returns(st, validateNewConfig(st.config))
    ELSE [st EXCEPT !.newConfig = TRUE]

readConfig(st, namespace, name, annotations, r) ==
    IF st.returned \/ ~usesNewMode(annotations) THEN st
    ELSE IF unmarshalFails(valueOf(annotations, autonegAnnotation))
    THEN returns([st EXCEPT !.valid = TRUE], "json")
    ELSE IF /\ autonegSyncAnnotation \in DOMAIN annotations
            /\ unmarshalFails(annotations[autonegSyncAnnotation])
    THEN returns([st EXCEPT !.valid = TRUE], "json")
    ELSE validated(
            [st EXCEPT !.valid = TRUE,
                       !.syncConfig = IF autonegSyncAnnotation \in DOMAIN annotations
                                      THEN <<annotations[autonegSyncAnnotation].doc>>
                                      ELSE <<>>,
                       !.config = configFromTemp(annotations[autonegAnnotation].doc,
                                                 namespace, name, r)])

\* "Does service has new auto neg status?"
readStatus(st, annotations, r) ==
    IF st.returned \/ autonegStatusAnnotation \notin DOMAIN annotations THEN st
    ELSE LET v == IF ~usesNewMode(annotations) /\ r.DeregisterNEGsOnAnnotationRemoval
                  THEN [st EXCEPT !.config = <<>>, !.valid = TRUE, !.newConfig = TRUE]
                  ELSE st
             tmp == annotations[autonegStatusAnnotation]
         IN  IF unmarshalFails(tmp) THEN returns(v, "json")
             ELSE [v EXCEPT !.status = tmp.doc]

\* the legacy configuration put on the first of any number of exposed ports
readOldConfigFirstPort(st, name, annotations) ==
    IF st.returned \/ oldAutonegAnnotation \notin DOMAIN annotations THEN st
    ELSE IF unmarshalFails(annotations[oldAutonegAnnotation])
    THEN returns([st EXCEPT !.valid = TRUE], "json")
    ELSE IF st.negConfig = {} THEN returns([st EXCEPT !.valid = TRUE], "more than one port")
    ELSE [st EXCEPT !.valid = TRUE,
                    !.oldConfig = annotations[oldAutonegAnnotation].doc,
                    !.config = [port \in {CHOOSE port \in st.negConfig : TRUE} |->
                        [n \in {annotations[oldAutonegAnnotation].doc.Name} |->
                            [AutonegNEGConfig EXCEPT
                                !.Name = annotations[oldAutonegAnnotation].doc.Name,
                                !.Rate = annotations[oldAutonegAnnotation].doc.Rate]]]]

\* "Is this service using autoneg in legacy mode?"
readOldConfig(st, name, annotations) ==
    IF st.returned \/ oldAutonegAnnotation \notin DOMAIN annotations THEN st
    ELSE LET v == [st EXCEPT !.valid = TRUE]
             tmp == annotations[oldAutonegAnnotation]
             oldConfig == IF tmp.doc.Name = "" THEN [tmp.doc EXCEPT !.Name = name]
                          ELSE tmp.doc
         IN  IF unmarshalFails(tmp) THEN returns(v, "json")
             ELSE IF Cardinality(st.negConfig) = 1
             THEN LET firstPort == CHOOSE port \in st.negConfig : TRUE
                  IN  [v EXCEPT !.oldConfig = oldConfig,
                                !.config = [port \in {firstPort} |->
                                    [n \in {oldConfig.Name} |->
                                        [AutonegNEGConfig EXCEPT !.Name = oldConfig.Name,
                                                                 !.Rate = oldConfig.Rate]]]]
             ELSE returns([v EXCEPT !.oldConfig = oldConfig], "more than one port")

readOldStatus(st, annotations, r) ==
    IF st.returned \/ oldAutonegStatusAnnotation \notin DOMAIN annotations THEN st
    ELSE LET v == IF oldAutonegAnnotation \notin DOMAIN annotations
                     /\ r.DeregisterNEGsOnAnnotationRemoval
                  THEN [st EXCEPT !.oldConfig = Statuses.oldConfig, !.valid = TRUE]
                  ELSE st
             tmp == annotations[oldAutonegStatusAnnotation]
         IN  IF unmarshalFails(tmp) THEN returns(v, "json")
             ELSE [v EXCEPT !.oldStatus = <<tmp.doc>>]

\* the legacy annotations read whatever else is present
readLegacyAlways(st, name, annotations, r) ==
    readOldStatus(readOldConfig(st, name, annotations), annotations, r)

readLegacy(st, name, annotations, r) ==
    IF usesNewMode(annotations) \/ autonegStatusAnnotation \in DOMAIN annotations
    THEN st
    ELSE readOldStatus(readOldConfig(st, name, annotations), annotations, r)

readNEGStatus(st, annotations) ==
    IF st.returned \/ negStatusAnnotation \notin DOMAIN annotations THEN st
    ELSE IF unmarshalFails(annotations[negStatusAnnotation]) THEN returns(st, "json")
    ELSE [st EXCEPT !.negStatus = annotations[negStatusAnnotation].doc]

getStatuses(namespace, name, annotations, r) ==
    readNEGStatus(
        readLegacy(
            readStatus(
                readConfig(readNEGConfig(Statuses, annotations),
                           namespace, name, annotations, r),
                annotations, r),
            name, annotations, r),
        annotations)

(***************************************************************************)
(* service_controller.go: ServiceReconciler.Reconcile, in two actions: up  *)
(* to the call of ReconcileBackends, and from its return on.               *)
(***************************************************************************)
svcNamespace == "ns"
svcName == "svc"

\* the number of reconcile passes over the Service
MaxPasses == 2

\* json.Marshal(intendedStatus), and of the OldAutonegStatus
marshalStatus(status) == jsonText(status)
marshalOldStatus(oldConfig, negStatus) ==
    jsonText([Name |-> oldConfig.Name, Rate |-> oldConfig.Rate,
              NEGs |-> negStatus.NEGs, Zones |-> negStatus.Zones])

\* "Process deletion"
isDeleting(service) ==
    /\ service.deleting
    /\ (oldAutonegFinalizer \in service.finalizers \/ autonegFinalizer \in service.finalizers)

\* Reconcile returned err; outcome names the return statement
reconcileResult(r, outcome, err) ==
    [r EXCEPT !.pc = "idle", !.passes = @ + 1, !.outcome = outcome, !.err = err]

\* Reconcile from the result of getStatuses to the call of
\* r.ReconcileBackends, or to an earlier return
reconcileStatuses(status, deleting) ==
    IF ~status.valid
    THEN /\ rec' = reconcileResult(rec, "notManaged", "nil")
         /\ events' = {}
         /\ UNCHANGED <<actual, intended, rb>>
    ELSE IF status.err # "nil"
    THEN /\ rec' = reconcileResult(rec, "configError", status.err)
         /\ events' = {<<"Warning", "ConfigError">>}
         /\ UNCHANGED <<actual, intended, rb>>
    ELSE IF /\ ~deleting
            /\ status.status = AutonegStatus(status.config, status.negStatus,
                                             status.syncConfig)
            /\ ~reconciler.AlwaysReconcile
    THEN /\ rec' = reconcileResult(rec, "equal", "nil")
         /\ events' = {}
         /\ UNCHANGED <<actual, intended, rb>>
    ELSE /\ actual' = status.status
         /\ intended' = AutonegStatus(IF deleting THEN <<>> ELSE status.config,
                                      status.negStatus, status.syncConfig)
         /\ rb' = rbCalled(actual', intended')
         /\ rec' = [rec EXCEPT !.pc = "backends", !.deleting = deleting,
                               !.newConfig = status.newConfig,
                               !.oldConfig = status.oldConfig]
         /\ events' = {}

\* from r.Get to the call of r.ReconcileBackends, or to an earlier return
ReconcileBegin ==
    /\ rec.pc = "idle"
    /\ rec.passes < MaxPasses
    /\ svc.exists
    /\ lastPatch' = NoPatch
    /\ apiCalls' = {}
    /\ external' = {}
    /\ operation' = NoOperation
    /\ reconcileStatuses(getStatuses(svcNamespace, svcName, svc.annotations, reconciler),
                         isDeleting(svc))
    /\ UNCHANGED <<backendServices, svc, reconciler, invocation>>

\* "Write changes to the service object."
writtenService(service, r, intendedStatus) ==
    IF r.deleting
    THEN [service EXCEPT
            !.finalizers = @ \ {oldAutonegFinalizer, autonegFinalizer},
            !.annotations = [k \in DOMAIN @ \ {autonegStatusAnnotation,
                                               oldAutonegStatusAnnotation} |-> @[k]]]
    ELSE LET status == [k \in {autonegStatusAnnotation} |-> marshalStatus(intendedStatus)]
             oldStatus == IF r.newConfig THEN <<>>
                          ELSE [k \in {oldAutonegStatusAnnotation} |->
                                  marshalOldStatus(r.oldConfig, intendedStatus)]
             new == status @@ oldStatus
         IN  [service EXCEPT
                !.finalizers = (@ \ {oldAutonegFinalizer}) \cup {autonegFinalizer},
                !.annotations = new @@ @]

\* the object after the API server accepted the update: a deleted object
\* without finalizers is gone
updatedService(service) ==
    IF service.deleting /\ service.finalizers = {}
    THEN [service EXCEPT !.exists = FALSE] ELSE service

\* the Normal events after the update, one per backend service of the
\* intended status
syncEvents(r, intendedStatus) ==
    {<<"Normal", IF r.deleting THEN "Delete" ELSE "Sync">> :
        pr \in pairsOf(intendedStatus.BackendServices)}

\* no error of ReconcileBackends ends the pass
noBackendError(r) == FALSE

\* "if err = r.ReconcileBackends(status.status, intendedStatus); err != nil":
\* both branches return the error
backendError(r) == r.err # "nil"

\* from the return of r.ReconcileBackends to the return of Reconcile
ReconcileEnd ==
    /\ rec.pc = "backends"
    /\ rb.pc = "returned"
    /\ IF backendError(rb)
       THEN /\ events' = {<<"Warning", IF rec.deleting /\ rb.err = "errNotFound"
                                       THEN "BackendError while deleting"
                                       ELSE "BackendError">>}
            /\ rec' = reconcileResult(rec, "backendError", rb.err)
            /\ UNCHANGED svc
       ELSE \E update \in {"nil", "conflict", "error"} :
              IF update = "nil"
              THEN /\ svc' = updatedService(writtenService(svc, rec, intended))
                   /\ events' = syncEvents(rec, intended)
                   /\ rec' = reconcileResult(rec, IF rec.deleting THEN "finalizerRemoved"
                                                  ELSE "statusWritten", "nil")
              ELSE /\ events' = IF update = "conflict" THEN {}
                                ELSE {<<"Warning", "BackendError">>}
                   /\ rec' = reconcileResult(rec, "updateError", update)
                   /\ UNCHANGED svc
    /\ UNCHANGED <<backendServices, operation, actual, intended, rb, lastPatch, apiCalls,
                   external, reconciler, invocation>>

\* the user deletes the Service: the API server keeps an object that has
\* finalizers, marked with a deletion timestamp
DeleteService ==
    /\ rec.pc = "idle"
    /\ svc.exists
    /\ ~svc.deleting
    /\ svc' = IF svc.finalizers = {} THEN [svc EXCEPT !.exists = FALSE]
              ELSE [svc EXCEPT !.deleting = TRUE]
    /\ UNCHANGED <<backendServices, operation, actual, intended, rb, lastPatch, apiCalls,
                   external, rec, events, reconciler, invocation>>

(***************************************************************************)
(* Properties of ReconcileBackends                                         *)
(***************************************************************************)
\* the pass returned nil and no other actor wrote to a backend service
passedAlone == rb.pc = "returned" /\ rb.err = "nil" /\ external = {}

\* the backends of the backend service as the API holds them
backendsOf(name, region) == resourceOf(backendServices, name, region).backends

groupsOn(name, region) == {be.Group : be \in Range(backendsOf(name, region))}

groupsOfPort(s, port) == Lookup(groupsByPort(project, s), port, {})

namesOfPort(s, port) ==
    {cfg.Name : cfg \in Range(Lookup(s.BackendServices, port, <<>>))}

\* the workload's own groups: the zone x NEG pairs of the actual and of the
\* intended status
ownGroups ==
    UNION {groupsOfPort(actual, port) : port \in DOMAIN actual.NEGs}
        \cup UNION {groupsOfPort(intended, port) : port \in DOMAIN intended.NEGs}

\* the backends of bes for groups that are not the workload's own, in order
othersOf(bes) ==
    LET other(be) == be.Group \notin ownGroups
    IN  SelectSeq(bes, other)

C4_NoLostUpdate ==
    /\ lastPatch.answer \in {"accepted", "acceptedFailing"}
          => lastPatch.before = lastPatch.fetched
    /\ (lastPatch.answer # "none" /\ lastPatch.before # lastPatch.fetched)
          => /\ lastPatch.answer \in {"preconditionFailed", "apiError"}
             /\ rb.pc = "returned"
             /\ rb.err = lastPatch.answer
             /\ backendsOf(lastPatch.name, lastPatch.region) = lastPatch.before

\* a patch was refused because another actor had written the backend service
C4_Witness ==
    /\ lastPatch.answer = "preconditionFailed"
    /\ <<lastPatch.name, lastPatch.region>> \in external
    /\ lastPatch.before # lastPatch.fetched

\* C5: after a pass that returned nil, a backend service named for a port in
\* actual and not in intended holds none of the port's actual groups.
C5_DroppedServiceDrained ==
    passedAlone =>
        \A port \in DOMAIN actual.BackendServices :
            \A name \in namesOfPort(actual, port) \ namesOfPort(intended, port) :
                groupsOn(name, "") \cap groupsOfPort(actual, port) = {}

\* C6: after a pass that returned nil, a backend service named in actual and
\* in intended for a port holds none of the port's actual groups that are
\* not intended groups, whatever the intended groups are.
C6_StaleGroupsRemoved ==
    passedAlone =>
        \A port \in DOMAIN actual.BackendServices :
            \A name \in namesOfPort(actual, port) \cap namesOfPort(intended, port) :
                groupsOn(name, "") \cap
                    (groupsOfPort(actual, port) \ groupsOfPort(intended, port)) = {}

\* none of the backend services exists: every fetch answers 404
allNotFound == \A key \in DOMAIN backendServices : ~backendServices[key].exists

\* C8: when every fetch answers 404 and intended names no backend service,
\* the pass returns nil, whether or not the NEG status is populated.
C8_DeletionOfMissingReturnsNil ==
    (/\ rb.pc = "returned"
     /\ allNotFound
     /\ actual.BackendServices # <<>>
     /\ intended.BackendServices = <<>>
     /\ rb.err # "apiError")
        => rb.err = "nil"

(***************************************************************************)
(* The statuses and backend services ReconcileBackends is run on           *)
(***************************************************************************)
Ports == {"80", "443"}
negOf(port) == IF port = "80" THEN 1 ELSE 2
ServiceNames == {"a", "b"}

config(name, rate, connections) ==
    [AutonegNEGConfig EXCEPT !.Name = name, !.Rate = rate, !.Connections = connections]

\* the backend configuration of a name, by rate
rateConfig(name) == config(name, 100, 0)

\* the entries of one port, keyed by backend-service name, <<>> for a port
\* that has no entry
portEntries(names, rate, connections) ==
    [k \in names |-> config(k, rate, connections)]

BackendServicesOf(p80, p443) ==
    [port \in {q \in Ports : (IF q = "80" THEN p80 ELSE p443) # <<>>} |->
        (IF port = "80" THEN p80 ELSE p443)[1]]

\* the entries of port 80 of an intended status
IntendedPort80 ==
    {<<>>} \cup {<<portEntries(names, 100, 0)>> : names \in SUBSET ServiceNames}
           \cup {<<portEntries(names, 0, 10)>> : names \in SUBSET ServiceNames}

\* the entries of port 80 of an actual status: as a pass wrote them, or with
\* an entry whose recorded name is another backend service, or is empty
ActualPort80 ==
    {<<>>} \cup {<<portEntries(names, 100, 0)>> : names \in SUBSET ServiceNames}
           \cup {<<[k \in {"a"} |-> config("b", 100, 0)]>>,
                 <<[k \in {"a"} |-> config("", 100, 0)]>>}

Port443 == {<<>>, <<portEntries({"a"}, 100, 0)>>}

negStatus(ports, zones) == [NEGs |-> [p \in ports |-> negOf(p)], Zones |-> zones]

\* the (actual, intended) NEG statuses: zones appear and disappear, and the
\* NEG status is not populated on either side
NEGStatusPairs ==
    {<<negStatus(Ports, zs[1]), negStatus(Ports, zs[2])>> :
        zs \in {<<<<1>>, <<1, 2>>>>, <<<<1, 2>>, <<1>>>>, <<<<1, 2>>, <<1, 2>>>>,
                <<<<1, 2>>, <<>>>>, <<<<1>>, <<2>>>>}}
    \cup {<<negStatus({"80"}, <<1, 2>>), negStatus({"80"}, <<1, 2>>)>>,
          <<NEGStatus, NEGStatus>>,
          <<NEGStatus, negStatus(Ports, <<1, 2>>)>>,
          <<negStatus(Ports, <<1, 2>>), NEGStatus>>}

\* the backends a pass that applied the status s left on the backend
\* service name
registeredBackends(s, name, port) ==
    LET keys == {k \in DOMAIN Lookup(s.BackendServices, port, <<>>) :
                    s.BackendServices[port][k].Name = name}
    IN  IF keys = {} \/ port \notin DOMAIN s.NEGs THEN <<>>
        ELSE sortBackends(s, CHOOSE k \in keys : TRUE, port,
                          groupsByPort(project, s)[port])

withForeign(bes) ==
    IF bes = <<>> THEN <<foreignBackend>>
    ELSE <<Head(bes), foreignBackend>> \o Tail(bes)

resourceFor(kind, s, name) ==
    LET own == registeredBackends(s, name, "443") \o registeredBackends(s, name, "80")
    IN  CASE kind = "missing" -> NoBackendService
          [] kind = "plain" -> [exists |-> TRUE, etag |-> 0, backends |-> own]
          [] kind = "shared" -> [exists |-> TRUE, etag |-> 0, backends |-> withForeign(own)]

\* what exists of the backend services a and b
StoreKinds ==
    {<<"plain", "plain">>, <<"shared", "shared">>, <<"missing", "shared">>,
     <<"plain", "missing">>, <<"missing", "missing">>}

storeFor(kinds, s) ==
    [key \in {<<"a", "">>, <<"b", "">>} |->
        resourceFor(IF key[1] = "a" THEN kinds[1] ELSE kinds[2], s, key[1])]

NoService == [exists |-> FALSE, annotations |-> <<>>, finalizers |-> {}, deleting |-> FALSE]

InitRB ==
    /\ \E ns \in NEGStatusPairs, a80 \in ActualPort80, i80 \in IntendedPort80,
          p443 \in Port443 :
        /\ actual = AutonegStatus(BackendServicesOf(a80, p443), ns[1], <<>>)
        /\ intended = AutonegStatus(BackendServicesOf(i80, p443), ns[2], <<>>)
    /\ \E kinds \in StoreKinds : backendServices = storeFor(kinds, actual)
    /\ rb = rbCalled(actual, intended)
    /\ operation = NoOperation
    /\ lastPatch = NoPatch
    /\ apiCalls = {}
    /\ external = {}
    /\ svc = NoService
    /\ rec = [pc |-> "direct"]
    /\ events = {}
    /\ reconciler = <<>>
    /\ invocation = NoCall

NextRB ==
    \/ (GetOld /\ UNCHANGED recVars)
    \/ (GetNew /\ UNCHANGED recVars)
    \/ (PatchOld /\ UNCHANGED recVars)
    \/ (PollOld /\ UNCHANGED recVars)
    \/ (PatchNew /\ UNCHANGED recVars)
    \/ (PollNew /\ UNCHANGED recVars)
    \/ (Return /\ UNCHANGED recVars)
    \/ (ExternalWrite /\ UNCHANGED recVars)

SpecRB == InitRB /\ [][NextRB]_vars

(***************************************************************************)
(* The Services, reconciler configurations and backend services a          *)
(* reconcile pass is run on                                                *)
(***************************************************************************)
defaultTemplate == <<"{name}", "{port}">>

\* the backend service of port 80 by the template, and one of another owner
generatedName == generateServiceName(svcNamespace, svcName, "80", defaultTemplate)
otherName == "victim"

ServiceReconcilers ==
    [ServiceNameTemplate : {defaultTemplate}, AllowServiceName : BOOLEAN,
     MaxRatePerEndpointDefault : {0}, MaxConnectionsPerEndpointDefault : {0},
     AlwaysReconcile : BOOLEAN, DeregisterNEGsOnAnnotationRemoval : BOOLEAN]

\* what the GKE NEG controller wrote for port 80
readyNEGStatus == negStatus({"80"}, <<1, 2>>)

\* the status a pass wrote for port 80 registered on the backend service name
writtenStatus(name) ==
    AutonegStatus([port \in {"80"} |-> portEntries({name}, 100, 0)],
                  readyNEGStatus, <<>>)

\* a status annotation edited by hand: the entry of the generated name
\* records the other backend service
editedStatus ==
    AutonegStatus([port \in {"80"} |->
                      [k \in {generatedName} |-> rateConfig(otherName)]],
                  readyNEGStatus, <<>>)

configText(cfg) == jsonText([port \in {"80"} |-> <<cfg>>])

\* the values of each annotation; <<>> for an annotation that is absent
NEGAnnotations == {<<>>, <<jsonText({"80"})>>, <<jsonText({"80", "443"})>>, <<notJSON>>}
NEGStatusAnnotations == {<<>>, <<jsonText(readyNEGStatus)>>, <<notJSON>>}
AutonegAnnotations ==
    {<<>>, <<notJSON>>,
     <<configText(rateConfig(""))>>,
     <<configText(rateConfig(otherName))>>,
     <<configText([rateConfig("") EXCEPT !.InitialCapacity = <<101>>])>>}
AutonegStatusAnnotations ==
    {<<>>, <<notJSON>>,
     <<jsonText(writtenStatus(generatedName))>>,
     <<jsonText(writtenStatus(otherName))>>,
     <<jsonText(editedStatus)>>}
OldAutonegAnnotations ==
    {<<>>, <<notJSON>>, <<jsonText([Name |-> otherName, Rate |-> 100])>>,
     <<jsonText([Name |-> "", Rate |-> 100])>>}

\* the annotations of a Service from the value of each
annotationsOf(neg, negSt, autoneg, autonegSt, oldAutoneg) ==
    LET vals == [k \in {negAnnotation, negStatusAnnotation, autonegAnnotation,
                        autonegStatusAnnotation, oldAutonegAnnotation} |->
                    CASE k = negAnnotation -> neg
                      [] k = negStatusAnnotation -> negSt
                      [] k = autonegAnnotation -> autoneg
                      [] k = autonegStatusAnnotation -> autonegSt
                      [] OTHER -> oldAutoneg]
    IN  [k \in {j \in DOMAIN vals : vals[j] # <<>>} |-> vals[k][1]]

\* the Services: one that has a status annotation has been reconciled, and
\* carries the finalizer; the legacy annotation is read only without the
\* annotations of the new mode
Services ==
    {[exists |-> TRUE,
      annotations |-> annotationsOf(neg, negSt, autoneg, autonegSt, oldAutoneg),
      finalizers |-> IF autonegSt = <<>> THEN {} ELSE {autonegFinalizer},
      deleting |-> FALSE] :
        <<neg, negSt, autoneg, autonegSt, oldAutoneg>> \in
            {t \in NEGAnnotations \X NEGStatusAnnotations \X AutonegAnnotations
                   \X AutonegStatusAnnotations \X OldAutonegAnnotations :
                /\ t[5] # <<>> => (t[3] = <<>> /\ t[4] = <<>>)
                /\ t[1] = <<jsonText({"80", "443"})>> => t[5] # <<>>}}

\* the backend services: the generated one and the other owner's, which
\* hold the backends the Service's status records and another owner's
backendServicesOf(service) ==
    LET st == getStatuses(svcNamespace, svcName, service.annotations,
                          CHOOSE r \in ServiceReconcilers : TRUE).status
    IN  [key \in {<<generatedName, "">>, <<otherName, "">>} |->
            [exists |-> TRUE, etag |-> 0,
             backends |-> IF key[1] = otherName
                          THEN withForeign(registeredBackends(st, key[1], "80"))
                          ELSE registeredBackends(st, key[1], "80")]]

Init ==
    /\ svc \in Services
    /\ reconciler \in ServiceReconcilers
    /\ invocation = NoCall
    /\ backendServices = backendServicesOf(svc)
    /\ rec = [pc |-> "idle", passes |-> 0, deleting |-> FALSE, newConfig |-> FALSE,
              oldConfig |-> Statuses.oldConfig, outcome |-> "none", err |-> "nil"]
    /\ actual = AutonegStatus(<<>>, NEGStatus, <<>>)
    /\ intended = AutonegStatus(<<>>, NEGStatus, <<>>)
    /\ rb = rbIdle
    /\ operation = NoOperation
    /\ lastPatch = NoPatch
    /\ apiCalls = {}
    /\ external = {}
    /\ events = {}

Next ==
    \/ ReconcileBegin
    \/ (GetOld /\ UNCHANGED recVars)
    \/ (GetNew /\ UNCHANGED recVars)
    \/ (PatchOld /\ UNCHANGED recVars)
    \/ (PollOld /\ UNCHANGED recVars)
    \/ (PatchNew /\ UNCHANGED recVars)
    \/ (PollNew /\ UNCHANGED recVars)
    \/ (Return /\ UNCHANGED recVars)
    \/ (ExternalWrite /\ UNCHANGED recVars)
    \/ ReconcileEnd
    \/ DeleteService

Spec == Init /\ [][Next]_vars

(***************************************************************************)
(* Properties of the reconcile pass                                        *)
(***************************************************************************)
\* the groups the status records: each zone x NEG of each port
recordedGroups(s) == UNION {groupsOfPort(s, port) : port \in DOMAIN s.NEGs}

\* the backend services the status names
recordedNames(s) == UNION {namesOfPort(s, port) : port \in DOMAIN s.BackendServices}

\* C1: in every state in which the controller has removed the finalizer of
\* a deleted Service, none of the groups recorded in the Service's status is
\* a backend of a backend service named in that status.
C1_DeregisteredBeforeFinalizerRemoved ==
    rec.outcome = "finalizerRemoved" =>
        \A name \in recordedNames(actual) :
            groupsOn(name, "") \cap recordedGroups(actual) = {}

\* the names the template generates for the Service's ports
generatedNames ==
    {generateServiceName(svcNamespace, svcName, port, reconciler.ServiceNameTemplate) :
        port \in Ports}

\* C7: with custom service names disabled, every backend-service API call
\* of a reconcile pass targets a name the template generates for the Service.
C7_OnlyGeneratedNames ==
    ~reconciler.AllowServiceName =>
        \A call \in apiCalls : call.name \in generatedNames

\* an annotation of the Service fails to decode
failsToDecode(annotations) ==
    \E k \in DOMAIN annotations : unmarshalFails(annotations[k])

\* C9: a reconcile pass over a Service that carries the autoneg config
\* annotation and an annotation that fails to decode makes no
\* backend-service API call, leaves the finalizers alone, records a Warning
\* ConfigError event and returns the error.
C9_DecodeFailureFailsThePass ==
    (/\ rec.pc = "idle"
     /\ rec.passes > 0
     /\ svc.exists
     /\ usesNewMode(svc.annotations)
     /\ failsToDecode(svc.annotations))
        => /\ rec.outcome = "configError"
           /\ rec.err # "nil"
           /\ events = {<<"Warning", "ConfigError">>}
           /\ apiCalls = {}
           /\ autonegFinalizer \in svc.finalizers
                 <=> autonegStatusAnnotation \in DOMAIN svc.annotations

\* the Service carries none of the autoneg annotations
unmanaged(service) ==
    DOMAIN service.annotations \cap
        {autonegAnnotation, autonegStatusAnnotation, oldAutonegAnnotation,
         oldAutonegStatusAnnotation} = {}

\* C10: a reconcile pass over a Service that carries none of the autoneg
\* annotations returns nil at once: it makes no backend-service API call
\* and leaves the Service as it is.
C10_UnmanagedServiceUntouched ==
    [][(rec.pc = "idle" /\ rec' # rec /\ unmanaged(svc))
          => /\ rec'.pc = "idle"
             /\ rec'.err = "nil"
             /\ apiCalls' = {}
             /\ events' = {}
             /\ svc' = svc]_vars

\* a pass over a Service that has the NEG annotations and none of autoneg's
\* returned
C10_Witness ==
    /\ svc.exists
    /\ unmanaged(svc)
    /\ negAnnotation \in DOMAIN svc.annotations
    /\ negStatusAnnotation \in DOMAIN svc.annotations
    /\ rec.passes > 0
    /\ rec.outcome = "notManaged"

(***************************************************************************)
(* Properties of the backends ReconcileBackends writes                     *)
(***************************************************************************)
\* the entries of the port that actual and intended record under the same
\* key for the same backend service
keptEntries(port) ==
    {k \in DOMAIN Lookup(intended.BackendServices, port, <<>>)
           \cap DOMAIN Lookup(actual.BackendServices, port, <<>>) :
        actual.BackendServices[port][k].Name = intended.BackendServices[port][k].Name}

\* C13: after a pass that returned nil, a backend that was registered before
\* the pass and whose configuration changed its balancing metric has the
\* balancing mode of the new configuration, in the only entry of its group.
C13_BalancingModeFollowsConfig ==
    passedAlone =>
        \A port \in DOMAIN intended.NEGs : \A k \in keptEntries(port) :
            \A g \in groupsOfPort(intended, port) \cap groupsOfPort(actual, port) :
                LET want == Backend(intended, k, port, g)
                    bes == backendsOf(intended.BackendServices[port][k].Name,
                                      intended.BackendServices[port][k].Region)
                IN  Backend(actual, k, port, g).BalancingMode # want.BalancingMode
                        => /\ Cardinality({i \in DOMAIN bes : bes[i].Group = g}) = 1
                           /\ \A i \in DOMAIN bes :
                                 bes[i].Group = g => bes[i].BalancingMode = want.BalancingMode

\* C14: a poll that reports the operation DONE with an error fails the
\* update at once, with no further poll; one that reports DONE without an
\* error ends the update with success; one that reports PENDING or RUNNING
\* is followed by another poll for as long as maxElapsedTime allows.
C14_PollOutcomes ==
    /\ rb.polled = "operation failed"
          => (rb.pc = "returned" /\ rb.err = "operation failed")
    /\ rb.polled = "nil" => rb.pc \notin {"pollOld", "pollNew"}
    /\ rb.polled \in {"operation pending", "operation running"}
          => \/ rb.pc \in {"pollOld", "pollNew"}
             \/ (rb.pc = "returned" /\ rb.err = rb.polled /\ rb.polls + 1 >= MaxPolls)

(***************************************************************************)
(* ReconcileBackends on statuses with capacity settings and a sync         *)
(* configuration, against backends whose capacity scaler was set out of    *)
(* band                                                                    *)
(***************************************************************************)
\* initial_capacity and capacity_scaler of a configuration: unset, 0 or a
\* percentage
InitialCapacities == {<<>>, <<0>>, <<50>>}
CapacityScalers == {<<>>, <<0>>, <<30>>}

\* the sync annotation: absent, '{}', '{"capacity_scaler":false}' and
\* '{"capacity_scaler":true}'
SyncConfigs == {<<>>, <<<<>>>>, <<<<FALSE>>>>, <<<<TRUE>>>>}

\* the capacity scalers an operator left on the registered backends
OutOfBandCapacities == {100, 0, 70}

capacityConfig(name, initial, scaler) ==
    [rateConfig(name) EXCEPT !.InitialCapacity = initial, !.CapacityScaler = scaler]

\* the backends bes with the capacity scaler set out of band
scaledTo(bes, capacity) == [i \in DOMAIN bes |-> [bes[i] EXCEPT !.CapacityScaler = capacity]]

\* the backend services a and b, holding what the actual status records at
\* the capacity set out of band, and another owner's backend
capacityStoreFor(s, capacity) ==
    [key \in {<<"a", "">>, <<"b", "">>} |->
        [exists |-> TRUE, etag |-> 0,
         backends |-> withForeign(scaledTo(registeredBackends(s, key[1], "80"), capacity))]]

InitCap ==
    /\ \E zs \in {<<<<1>>, <<1, 2>>>>, <<<<1, 2>>, <<1, 2>>>>},
          recorded \in {"a", "b"},
          initial \in InitialCapacities, scaler \in CapacityScalers,
          sync \in SyncConfigs :
        /\ actual = AutonegStatus([port \in {"80"} |-> [k \in {"a"} |-> rateConfig(recorded)]],
                                  negStatus({"80"}, zs[1]), <<>>)
        /\ intended = AutonegStatus([port \in {"80"} |->
                                        [k \in {"a"} |-> capacityConfig("a", initial, scaler)]],
                                    negStatus({"80"}, zs[2]), sync)
    /\ \E capacity \in OutOfBandCapacities :
          backendServices = capacityStoreFor(actual, capacity)
    /\ rb = rbCalled(actual, intended)
    /\ operation = NoOperation
    /\ lastPatch = NoPatch
    /\ apiCalls = {}
    /\ external = {}
    /\ svc = NoService
    /\ rec = [pc |-> "direct"]
    /\ events = {}
    /\ reconciler = <<>>
    /\ invocation = NoCall

SpecCap == InitCap /\ [][NextRB]_vars

\* the patch of the upserted backend service of the current pair was
\* accepted
upsertPatched == rb.pc = "pollNew" /\ lastPatch.answer = "accepted"

\* the capacity scaler the API stores for the group from the patch body, -1
\* when the body has no backend for the group
patchedCapacity(group) ==
    LET i == indexOfGroup(lastPatch.body, group, 1)
    IN  IF i = 0 THEN -1 ELSE storedBackend(lastPatch.body[i]).CapacityScaler

\* C11: when the patch of an upsert is accepted, every backend that was
\* fetched and is in the upsert bundle is stored with the capacity scaler
\* that was fetched, unless the sync configuration has capacity_scaler =
\* true: then with the capacity scaler computed from the configuration.
C11_CapacityScalerKeptUnlessSynced ==
    upsertPatched =>
        \A i \in DOMAIN lastPatch.fetched : \A j \in DOMAIN upsertOf(rb).backends :
            LET be == lastPatch.fetched[i]
                u == upsertOf(rb).backends[j]
            IN  u.Group = be.Group =>
                    patchedCapacity(be.Group) =
                        IF intended.AutonegSyncConfig = <<<<TRUE>>>>
                        THEN capacityScalerOf(intended.BackendServices[rb.port][rb.idx])
                        ELSE be.CapacityScaler

\* an accepted patch kept a capacity scaler of 0 set out of band, with the
\* sync annotation absent and capacity_scaler 30 configured
C11_Witness ==
    /\ upsertPatched
    /\ intended.AutonegSyncConfig = <<>>
    /\ intended.BackendServices[rb.port][rb.idx].CapacityScaler = <<30>>
    /\ \E i \in DOMAIN lastPatch.fetched :
          /\ lastPatch.fetched[i].Group \in ownGroups
          /\ lastPatch.fetched[i].CapacityScaler = 0
          /\ patchedCapacity(lastPatch.fetched[i].Group) = 0

\* C12: when the patch of an upsert is accepted for a configuration with
\* initial_capacity and without capacity_scaler, a backend the pass appended
\* is stored with initial_capacity as its capacity scaler, and a backend
\* that was fetched is stored with the capacity scaler that was fetched,
\* whatever the sync configuration.
C12_InitialCapacitySeedsOnce ==
    LET cfg == intended.BackendServices[rb.port][rb.idx]
        fetchedGroups == {lastPatch.fetched[i].Group : i \in DOMAIN lastPatch.fetched}
    IN  (upsertPatched /\ cfg.InitialCapacity # <<>> /\ cfg.CapacityScaler = <<>>) =>
            /\ \A j \in DOMAIN upsertOf(rb).backends :
                  upsertOf(rb).backends[j].Group \notin fetchedGroups
                      => patchedCapacity(upsertOf(rb).backends[j].Group) = cfg.InitialCapacity[1]
            /\ \A i \in DOMAIN lastPatch.fetched :
                  lastPatch.fetched[i].Group \in ownGroups
                      => patchedCapacity(lastPatch.fetched[i].Group)
                            = lastPatch.fetched[i].CapacityScaler

(***************************************************************************)
(* The functions of the package called on their own: ReconcileStatus,      *)
(* AutonegStatus.Backend, validateNewConfig and generateServiceName.       *)
(* A call is drawn with its arguments, and the function's action returns   *)
(* its result.                                                             *)
(***************************************************************************)
\* a call of fn with the arguments args, before it returns
callOf(fn, args) == [fn |-> fn, args |-> args, returned |-> FALSE, result |-> <<>>]

\* the call returned by now
returnedFrom(fn) == invocation.fn = fn /\ invocation.returned

\* the entries of port 443: none, a global target, a regional target, or
\* both
regionalConfig(name) == [config(name, 0, 10) EXCEPT !.Region = "europe-west4"]

FnPort443 ==
    {<<>>, <<portEntries({"a"}, 100, 0)>>, <<[k \in {"b"} |-> regionalConfig(k)]>>,
     <<[k \in ServiceNames |-> IF k = "b" THEN regionalConfig(k) ELSE config(k, 100, 0)]>>}

FnNEGStatuses ==
    {NEGStatus, negStatus({"80"}, <<1, 2>>), negStatus(Ports, <<1, 2>>),
     negStatus(Ports, <<1>>)}

\* the statuses ReconcileStatus is called with
FnStatuses ==
    {AutonegStatus(BackendServicesOf(p80, p443), neg, <<>>) :
        p80 \in ActualPort80 \cup IntendedPort80, p443 \in FnPort443,
        neg \in FnNEGStatuses}

\* the state of everything but the call
idleButCall ==
    /\ backendServices = <<>>
    /\ operation = NoOperation
    /\ actual = AutonegStatus(<<>>, NEGStatus, <<>>)
    /\ intended = AutonegStatus(<<>>, NEGStatus, <<>>)
    /\ rb = rbIdle
    /\ lastPatch = NoPatch
    /\ apiCalls = {}
    /\ external = {}
    /\ svc = NoService
    /\ rec = [pc |-> "direct"]
    /\ events = {}
    /\ reconciler = <<>>

\* the call with its result
returned(result) == [invocation EXCEPT !.returned = TRUE, !.result = result]

\* a call of fn that has not returned
calling(fn) == invocation.fn = fn /\ ~invocation.returned

CallReconcileStatus ==
    /\ calling("ReconcileStatus")
    /\ invocation' = returned(ReconcileStatus(project, invocation.args[1],
                                              invocation.args[2]))
    /\ UNCHANGED <<rbVars, svc, rec, events, reconciler>>

\* the groups of a port of a status, as the URLs getGroup formats
urlsOfPort(s, port) ==
    IF port \in DOMAIN s.NEGs
    THEN {<<s.Zones[i], s.NEGs[port]>> : i \in DOMAIN s.Zones} ELSE {}

\* the bundle holds one backend for each of the groups, and no other
holdsExactly(bundle, groups) ==
    /\ {bundle.backends[j].Group : j \in DOMAIN bundle.backends} = groups
    /\ Len(bundle.backends) = Cardinality(groups)

\* initial_capacity and capacity_scaler: unset, in 0..100, just outside of
\* it, and the ends of int32
FnCapacities ==
    {<<>>} \cup {<<c>> : c \in {-2147483647 - 1, -1, 0, 1, 50, 100, 101, 2147483647}}

\* the configurations Backend and validateNewConfig are called with
FnConfigs ==
    {[AutonegNEGConfig EXCEPT !.Name = "a", !.Rate = rate, !.Connections = connections,
                              !.CustomMetrics = metrics, !.InitialCapacity = initial,
                              !.CapacityScaler = scaler] :
        rate \in {0, 100}, connections \in {0, 10},
        metrics \in {<<>>, <<[Name |-> "cool_one", MaxUtilization |-> 50,
                              DryRun |-> FALSE]>>},
        initial \in FnCapacities, scaler \in FnCapacities}

\* AutonegConfig{BackendServices: {"80": {"a": cfg}}}
configOf(cfg) == [port \in {"80"} |-> [k \in {"a"} |-> cfg]]

\* status.Backend(name, "80", group) of the status of a configuration
CallBackend ==
    /\ calling("Backend")
    /\ invocation' =
          returned(Backend(AutonegStatus(configOf(invocation.args[1]), NEGStatus, <<>>),
                           invocation.args[2], "80", <<1, 1>>))
    /\ UNCHANGED <<rbVars, svc, rec, events, reconciler>>

CallValidateNewConfig ==
    /\ calling("validateNewConfig")
    /\ invocation' = returned(validateNewConfig(configOf(invocation.args[1])))
    /\ UNCHANGED <<rbVars, svc, rec, events, reconciler>>

\* the configuration Backend read: the zero configuration for a name the
\* status has no entry for
configRead ==
    IF invocation.args[2] = "a" THEN invocation.args[1] ELSE AutonegNEGConfig

\* the namespaces, names and ports of a Service: short ones, the long ones
\* of utils_test.go, and a name longer than a whole backend-service name
FnServices ==
    {"ns", "longlonglonglonglonglonglongnamespace"}
    \X {"name", "longlonglongname", "longlonglonglonglonglonglonglonglonglonglonglonglonglonglonglonglonger"}
    \X {"80", "8080"}

hashes(n) == [i \in 1..n |-> "{hash}"]

\* service name templates, as lists of tags: the ones of utils_test.go,
\* templates that repeat a tag, and lists IsValidServiceNameTemplate rejects
FnTemplates ==
    {<<"{namespace}", "{name}", "{port}", "{hash}">>, <<"{name}", "{port}">>,
     <<"{namespace}">>, <<"{name}">>, <<"{port}">>, <<"{hash}">>,
     <<"{name}", "{name}", "{name}">>, <<"{hash}", "{name}", "{hash}">>,
     hashes(6) \o <<"{name}">>, hashes(7) \o <<"{name}">>, hashes(8),
     <<>>, <<"{named}">>, <<"{name}", "">>}

\* the controller starts with a template IsValidServiceNameTemplate accepts
CallGenerateServiceName ==
    /\ calling("generateServiceName")
    /\ IsValidServiceNameTemplate(invocation.args[4])
    /\ invocation' = returned(generateServiceName(invocation.args[1], invocation.args[2],
                                                  invocation.args[3], invocation.args[4]))
    /\ UNCHANGED <<rbVars, svc, rec, events, reconciler>>

\* generateServiceName for two Services under one template
CallGenerateServiceNames ==
    /\ calling("generateServiceNames")
    /\ invocation' =
          returned([i \in 1..2 |->
                      generateServiceName(invocation.args[i][1], invocation.args[i][2],
                                          invocation.args[i][3], invocation.args[3])])
    /\ UNCHANGED <<rbVars, svc, rec, events, reconciler>>

\* the namespace, name and port of Services whose generated names are
\* compared: hyphens split them differently, or the long namespaces of
\* utils_test.go differ in the part that is cut off
FnTriples ==
    {<<"a-b", "c", "80">>, <<"a", "b-c", "80">>, <<"ns", "name", "80">>,
     <<"ns", "name", "8080">>,
     <<"longlonglonglonglonglonglongnamespace1", "longlonglongname", "8080">>,
     <<"longlonglonglonglonglonglongnamespace2", "longlonglongname", "8080">>}

\* getStatuses(namespace, name, annotations, r)
CallGetStatuses ==
    /\ calling("getStatuses")
    /\ invocation' = returned(getStatuses(svcNamespace, svcName, invocation.args[1],
                                          invocation.args[2]))
    /\ UNCHANGED <<rbVars, svc, rec, events, reconciler>>

\* the annotations named in keys, with the value of each; <<>> for an
\* annotation that is absent
annotated(keys, vals) ==
    [k \in {keys[i] : i \in {j \in DOMAIN keys : vals[j] # <<>>}} |->
        vals[CHOOSE i \in DOMAIN keys : keys[i] = k][1]]

InitFn ==
    /\ idleButCall
    /\ \/ \E a \in FnStatuses, i \in FnStatuses :
              invocation = callOf("ReconcileStatus", <<a, i>>)
       \/ \E cfg \in FnConfigs, name \in ServiceNames :
              invocation = callOf("Backend", <<cfg, name>>)
       \/ \E cfg \in FnConfigs : invocation = callOf("validateNewConfig", <<cfg>>)
       \/ \E service \in FnServices, tags \in FnTemplates :
              invocation = callOf("generateServiceName",
                                  <<service[1], service[2], service[3], tags>>)
       \/ \E one \in FnTriples, other \in FnTriples,
             tags \in {<<"{namespace}", "{name}", "{port}", "{hash}">>, <<"{hash}">>,
                       <<"{hash}", "{name}">>} :
              invocation = callOf("generateServiceNames", <<one, other, tags>>)
       \/ \E neg \in NEGAnnotations \cup {<<jsonText({})>>},
             negSt \in NEGStatusAnnotations, autoneg \in AutonegAnnotations,
             autonegSt \in AutonegStatusAnnotations, oldAutoneg \in OldAutonegAnnotations,
             oldAutonegSt \in {<<>>, <<notJSON>>,
                               <<marshalOldStatus([Name |-> otherName, Rate |-> 100],
                                                  readyNEGStatus)>>},
             sync \in {<<>>, <<notJSON>>}, r \in ServiceReconcilers :
              invocation =
                  callOf("getStatuses",
                         <<annotated(<<negAnnotation, negStatusAnnotation, autonegAnnotation,
                                       autonegStatusAnnotation, oldAutonegAnnotation,
                                       oldAutonegStatusAnnotation, autonegSyncAnnotation>>,
                                     <<neg, negSt, autoneg, autonegSt, oldAutoneg,
                                       oldAutonegSt, sync>>),
                           r>>)

NextFn ==
    \/ CallReconcileStatus
    \/ CallBackend
    \/ CallValidateNewConfig
    \/ CallGenerateServiceName
    \/ CallGenerateServiceNames
    \/ CallGetStatuses

SpecFn == InitFn /\ [][NextFn]_vars

(***************************************************************************)
(* Properties of the functions                                             *)
(***************************************************************************)
\* C15: ReconcileStatus of a status against itself removes nothing (every
\* remove bundle is empty) and upserts, for every port and backend service of
\* the status, exactly one backend per group of the status for that port
C15_SelfDiffRemovesNothing ==
    (returnedFrom("ReconcileStatus") /\ invocation.args[1] = invocation.args[2]) =>
        LET S == invocation.args[1]
            r == invocation.result
        IN  /\ \A port \in DOMAIN r.removes : \A k \in DOMAIN r.removes[port] :
                   r.removes[port][k].backends = <<>>
            /\ \A port \in DOMAIN r.upserts : \A k \in DOMAIN r.upserts[port] :
                   /\ port \in DOMAIN S.BackendServices
                   /\ k \in DOMAIN S.BackendServices[port]
            /\ \A port \in DOMAIN S.BackendServices :
               \A k \in DOMAIN S.BackendServices[port] :
                   \/ /\ port \notin DOMAIN r.upserts
                      /\ urlsOfPort(S, port) = {}
                   \/ /\ port \in DOMAIN r.upserts
                      /\ k \in DOMAIN r.upserts[port]
                      /\ r.upserts[port][k].name = S.BackendServices[port][k].Name
                      /\ holdsExactly(r.upserts[port][k], urlsOfPort(S, port))

\* a status with two targets on a port and two groups is diffed against itself
C15_Witness ==
    /\ returnedFrom("ReconcileStatus")
    /\ invocation.args[1] = invocation.args[2]
    /\ "80" \in DOMAIN invocation.result.upserts
    /\ DOMAIN invocation.result.upserts["80"] = {"a", "b"}
    /\ Len(invocation.result.upserts["80"]["a"].backends) = 2

\* C16: when the actual status records the backend service A on a port and
\* the intended status names only differently named backend services on
\* that port, with the same NEG status on both sides, a remove bundle targets
\* A with exactly the port's groups and the upsert bundle of each intended
\* backend service B holds exactly the port's groups
C16_RenameMovesAllGroups ==
    returnedFrom("ReconcileStatus") =>
        LET A == invocation.args[1]
            I == invocation.args[2]
            r == invocation.result
        IN  (A.NEGs = I.NEGs /\ A.Zones = I.Zones) =>
                \A port \in DOMAIN A.NEGs \cap DOMAIN A.BackendServices \cap DOMAIN I.BackendServices :
                \A k \in DOMAIN A.BackendServices[port] :
                \A l \in DOMAIN I.BackendServices[port] :
                    (/\ A.BackendServices[port][k].Name # ""
                     /\ A.BackendServices[port][k].Name \notin namesOfPort(I, port)) =>
                        /\ \E key \in DOMAIN r.removes[port] :
                              /\ r.removes[port][key].name = A.BackendServices[port][k].Name
                              /\ holdsExactly(r.removes[port][key], urlsOfPort(A, port))
                        /\ r.upserts[port][l].name = I.BackendServices[port][l].Name
                        /\ holdsExactly(r.upserts[port][l], urlsOfPort(I, port))

\* "basic to name changed": a on port 80 with two groups is renamed to b
C16_Witness ==
    /\ returnedFrom("ReconcileStatus")
    /\ invocation.args[1].NEGs = invocation.args[2].NEGs
    /\ invocation.args[1].Zones = <<1, 2>> /\ invocation.args[2].Zones = <<1, 2>>
    /\ "80" \in DOMAIN invocation.args[1].BackendServices
    /\ "80" \in DOMAIN invocation.args[2].BackendServices
    /\ "80" \in DOMAIN invocation.args[1].NEGs
    /\ DOMAIN invocation.args[1].BackendServices["80"] = {"a"}
    /\ DOMAIN invocation.args[2].BackendServices["80"] = {"b"}
    /\ namesOfPort(invocation.args[1], "80") = {"a"}
    /\ namesOfPort(invocation.args[2], "80") = {"b"}
    /\ invocation.result.removes["80"]["a"].name = "a"
    /\ Len(invocation.result.removes["80"]["a"].backends) = 2
    /\ Len(invocation.result.upserts["80"]["b"].backends) = 2

\* the status s without the backend service under key of port
without(s, port, key) ==
    [s EXCEPT !.BackendServices[port] =
        [k \in DOMAIN s.BackendServices[port] \ {key} |-> s.BackendServices[port][k]]]

\* several ports, each with a NEG and two backend services
twoTargetsOnEachPort(s) ==
    /\ Cardinality(DOMAIN s.BackendServices) >= 2
    /\ \A port \in DOMAIN s.BackendServices :
          /\ port \in DOMAIN s.NEGs
          /\ Cardinality(DOMAIN s.BackendServices[port]) = 2
          /\ \A k \in DOMAIN s.BackendServices[port] : s.BackendServices[port][k].Name = k

\* C17: with several ports of two backend services each, dropping one
\* backend service of one port from the intended status gives a remove bundle
\* for the dropped one with all groups of the port, and for no other; the
\* sibling keeps an empty remove bundle and its full upsert bundle, and the
\* bundles of the other ports are those of an unchanged status
C17_DropOneTargetOfOnePort ==
    returnedFrom("ReconcileStatus") =>
        LET A == invocation.args[1]
            I == invocation.args[2]
            r == invocation.result
        IN  twoTargetsOnEachPort(A) =>
                \A port \in DOMAIN A.BackendServices :
                \A k \in DOMAIN A.BackendServices[port] :
                    I = without(A, port, k) =>
                        /\ r.removes[port][k].name = A.BackendServices[port][k].Name
                        /\ r.removes[port][k].region = A.BackendServices[port][k].Region
                        /\ holdsExactly(r.removes[port][k], urlsOfPort(A, port))
                        /\ \A sibling \in DOMAIN r.removes[port] \ {k} :
                              /\ sibling \in DOMAIN A.BackendServices[port]
                              /\ r.removes[port][sibling].backends = <<>>
                        /\ \A sibling \in DOMAIN A.BackendServices[port] \ {k} :
                              /\ sibling \in DOMAIN r.removes[port]
                              /\ r.upserts[port][sibling].name = sibling
                              /\ r.upserts[port][sibling].region
                                    = A.BackendServices[port][sibling].Region
                              /\ holdsExactly(r.upserts[port][sibling], urlsOfPort(A, port))
                        /\ \A other \in DOMAIN A.BackendServices \ {port} :
                              /\ r.removes[other] = ReconcileStatus(project, A, A).removes[other]
                              /\ r.upserts[other] = ReconcileStatus(project, A, A).upserts[other]
                              /\ \A key \in DOMAIN A.BackendServices[other] :
                                    /\ r.removes[other][key].backends = <<>>
                                    /\ holdsExactly(r.upserts[other][key], urlsOfPort(A, other))

\* the regional backend service of port 443 is dropped, port 80 stays
C17_Witness ==
    /\ returnedFrom("ReconcileStatus")
    /\ twoTargetsOnEachPort(invocation.args[1])
    /\ invocation.args[1].Zones = <<1, 2>>
    /\ invocation.args[2] = without(invocation.args[1], "443", "b")
    /\ invocation.result.removes["443"]["b"].region = "europe-west4"
    /\ Len(invocation.result.removes["443"]["b"].backends) = 2
    /\ invocation.result.removes["443"]["a"].backends = <<>>
    /\ Len(invocation.result.upserts["80"]["b"].backends) = 2

\* C18: the balancing mode of the backend Backend computes is
\* CUSTOM_METRICS when the configuration has a custom metric, else RATE when
\* its rate is positive, else CONNECTION
C18_BalancingModePrecedence ==
    returnedFrom("Backend") =>
        invocation.result.BalancingMode =
            IF configRead.CustomMetrics # <<>> THEN "CUSTOM_METRICS"
            ELSE IF configRead.Rate > 0 THEN "RATE"
            ELSE "CONNECTION"

\* C19: for every initial_capacity and capacity_scaler of int32 the capacity
\* scaler Backend computes is within [0, 1] (0..100 percent): capacity_scaler
\* when set and within 0..100, otherwise initial_capacity when set and within
\* 0..100, otherwise 1; and validateNewConfig returns an error exactly when
\* one of the two is set outside of 0..100
C19_CapacityScalerInUnitRange ==
    /\ returnedFrom("Backend") =>
          LET initial == configRead.InitialCapacity
              scaler == configRead.CapacityScaler
          IN  /\ invocation.result.CapacityScaler >= 0
              /\ invocation.result.CapacityScaler <= 100
              /\ invocation.result.CapacityScaler =
                    IF scaler # <<>> /\ scaler[1] \in 0..100 THEN scaler[1]
                    ELSE IF initial # <<>> /\ initial[1] \in 0..100 THEN initial[1]
                    ELSE 100
    /\ returnedFrom("validateNewConfig") =>
          LET initial == invocation.args[1].InitialCapacity
              scaler == invocation.args[1].CapacityScaler
          IN  (invocation.result = "nil") <=>
                  /\ (initial = <<>> \/ initial[1] \in 0..100)
                  /\ (scaler = <<>> \/ scaler[1] \in 0..100)

\* a capacity_scaler above 100 is passed over for the initial_capacity
C19_Witness ==
    /\ returnedFrom("Backend")
    /\ configRead.CapacityScaler = <<101>>
    /\ configRead.InitialCapacity = <<50>>
    /\ invocation.result.CapacityScaler = 50

\* C20: for every template IsValidServiceNameTemplate accepts and every
\* namespace, name and port, the name generateServiceName returns is at most
\* 63 characters long
C20_GeneratedNameAtMost63 ==
    returnedFrom("generateServiceName") => Len(invocation.result) <= maxNameLength

\* C21: under a template with {hash}, two distinct (namespace, name, port)
\* triples get different generated names, whenever the digests of distinct
\* digest inputs are distinct
C21_DistinctTriplesDistinctNames ==
    returnedFrom("generateServiceNames") =>
        LET one == invocation.args[1]
            other == invocation.args[2]
        IN  (/\ one # other
             /\ (join(one, "-") # join(other, "-")
                    => hashOf(join(one, "-")) # hashOf(join(other, "-")))) =>
                invocation.result[1] # invocation.result[2]

C23_LegacyNeedsExactlyOnePort ==
    returnedFrom("getStatuses") =>
        LET annotations == invocation.args[1]
            ports == IF negAnnotation \in DOMAIN annotations
                     THEN annotations[negAnnotation].doc ELSE {}
            legacy == annotations[oldAutonegAnnotation].doc
            legacyName == IF legacy.Name = "" THEN svcName ELSE legacy.Name
        IN  (/\ DOMAIN annotations \cap {autonegAnnotation, autonegStatusAnnotation} = {}
             /\ oldAutonegAnnotation \in DOMAIN annotations
             /\ annotations[oldAutonegAnnotation].ok
             /\ negAnnotation \in DOMAIN annotations => annotations[negAnnotation].ok) =>
                IF Cardinality(ports) = 1
                THEN /\ DOMAIN invocation.result.config = ports
                     /\ \A port \in ports :
                           invocation.result.config[port] =
                               [n \in {legacyName} |->
                                   [AutonegNEGConfig EXCEPT !.Name = legacyName,
                                                            !.Rate = legacy.Rate]]
                     /\ invocation.result.err \in {"nil", "json"}
                     /\ (DOMAIN annotations \subseteq {negAnnotation, oldAutonegAnnotation})
                           => invocation.result.err = "nil"
                ELSE /\ invocation.result.err = "more than one port"
                     /\ invocation.result.config = <<>>

\* a legacy annotation without a name, and one exposed port
C23_Witness ==
    /\ returnedFrom("getStatuses")
    /\ DOMAIN invocation.args[1] = {negAnnotation, oldAutonegAnnotation}
    /\ invocation.args[1][oldAutonegAnnotation] = jsonText([Name |-> "", Rate |-> 100])
    /\ invocation.args[1][negAnnotation] = jsonText({"80"})
    /\ invocation.result.err = "nil"
    /\ DOMAIN invocation.result.config["80"] = {svcName}

(***************************************************************************)
(* Properties of a pass whose backend reconciliation failed                *)
(***************************************************************************)
\* C24: Reconcile changes the Service object (finalizers, status
\* annotations) only in a pass in which ReconcileBackends returned no error:
\* a step of Reconcile that changes the Service is taken with
\* ReconcileBackends returned and its error nil
C24_ServiceUpdatedOnlyAfterSuccess ==
    [][(svc' # svc /\ rec.pc # "idle") => (rb.pc = "returned" /\ rb.err = "nil")]_vars

\* ReconcileBackends failed for a Service being deleted: the finalizer and
\* the status annotation are still there after the pass
C24_Witness ==
    /\ rec.pc = "idle"
    /\ rec.outcome = "backendError"
    /\ svc.deleting
    /\ autonegFinalizer \in svc.finalizers
    /\ autonegStatusAnnotation \in DOMAIN svc.annotations

(***************************************************************************)
(* The reconcile passes under the work queue of the controller: a request  *)
(* whose Reconcile returned an error is queued again, and the controller   *)
(* keeps taking its steps.  Other actors and the user act when they like.  *)
(***************************************************************************)
\* "Error reading the object - requeue the request.": the queue hands a
\* request whose pass returned an error to Reconcile again.  A pass during
\* which nobody wrote to the backend services left them as they were and
\* does not count for MaxPasses.
Requeue ==
    /\ rec.pc = "idle"
    /\ rec.err # "nil"
    /\ rec.passes = MaxPasses
    /\ lastPatch = NoPatch
    /\ external = {}
    /\ svc.exists
    /\ rec' = [rec EXCEPT !.passes = MaxPasses - 1]
    /\ UNCHANGED <<rbVars, svc, events, reconciler, invocation>>

\* a Service with a config annotation that names no backend service, not
\* yet reconciled or reconciled onto the generated or onto another backend
\* service, with and without the NEG status of the NEG controller
InitLive ==
    /\ svc \in {[exists |-> TRUE,
                 annotations |-> annotationsOf(<<jsonText({"80"})>>, negSt,
                                               <<configText(rateConfig(""))>>,
                                               autonegSt, <<>>),
                 finalizers |-> IF autonegSt = <<>> THEN {} ELSE {autonegFinalizer},
                 deleting |-> FALSE] :
                    <<negSt, autonegSt>> \in
                        {<<>>, <<jsonText(readyNEGStatus)>>}
                        \X {<<>>, <<jsonText(writtenStatus(generatedName))>>,
                                  <<jsonText(writtenStatus(otherName))>>,
                                  <<jsonText(editedStatus)>>}}
    /\ reconciler \in {r \in ServiceReconcilers :
                          r.AllowServiceName /\ r.DeregisterNEGsOnAnnotationRemoval}
    /\ Init

NextLive ==
    \/ Next
    \/ Requeue

\* the controller keeps taking the steps of a pass, starts the passes the
\* queue holds, and the queue retries.  Weak fairness of ReconcileBegin and
\* of the steps of ReconcileBackends is written with their enabling
\* conditions: infinitely often the action is not enabled or is taken.
SpecLive ==
    /\ InitLive
    /\ [][NextLive]_vars
    /\ WF_vars(ReconcileEnd)
    /\ WF_vars(Requeue)
    /\ \/ []<>~(rec.pc = "idle" /\ rec.passes < MaxPasses /\ svc.exists)
       \/ []<><<ReconcileBegin>>_vars
    /\ \/ []<>~(rb.pc \in {"next", "getNew", "patchOld", "pollOld", "patchNew", "pollNew"})
       \/ []<><<(GetOld \/ GetNew \/ PatchOld \/ PollOld \/ PatchNew \/ PollNew \/ Return)
                   /\ UNCHANGED recVars>>_vars

\* C25: if reconcile passes keep being run and from some time on no pass
\* fails for another reason than a backend service that is not found, a
\* Service that is being deleted and has the finalizer eventually loses the
\* finalizer and the status annotation
C25_DeletionNotBlockedForever ==
    ([]<>(rec.pc # "idle") /\ <>[](rec.err \in {"nil", "errNotFound"})) =>
        ((svc.exists /\ svc.deleting /\ autonegFinalizer \in svc.finalizers)
            ~> (/\ autonegFinalizer \notin svc.finalizers
                /\ autonegStatusAnnotation \notin DOMAIN svc.annotations))

(***************************************************************************)
(* Properties of a ReconcileBackends call in which an API call failed      *)
(***************************************************************************)
\* C26: a fetch, patch or poll that fails makes ReconcileBackends return its
\* error at once (a not-found answer to the fetch of the remove target is no
\* failure); the failing step and every later step leave the backend
\* services as the earlier patches left them and make no API call.
C26_FailureAbortsWithoutRollback ==
    [][/\ (rb.err # "nil") =>
             UNCHANGED <<rb, apiCalls, backendServices, lastPatch, operation>>
       /\ (rb.err = "nil" /\ rb'.err # "nil") =>
             (rb'.pc = "returned" /\ backendServices' = backendServices)
       /\ (lastPatch' # lastPatch /\ lastPatch'.answer \notin {"accepted", "acceptedFailing"}) =>
             (rb'.pc = "returned" /\ rb'.err = lastPatch'.answer)
       /\ (/\ rb.pc = "getNew" /\ rb' # rb
           /\ ~resourceOf(backendServices, upsertOf(rb).name, upsertOf(rb).region).exists) =>
             (rb'.pc = "returned" /\ rb'.err \in {"errNotFound", "apiError"})
       /\ (/\ rb.pc \in {"pollOld", "pollNew"} /\ rb' # rb
           /\ rb'.polled # "nil" /\ rb.polls + 1 >= MaxPolls) =>
             (rb'.pc = "returned" /\ rb'.err = rb'.polled)]_vars

\* a fetch failed after the patch of an earlier pair was applied, with pairs
\* left to do: the patch is still in place
C26_Witness ==
    /\ rb.pc = "returned" /\ rb.err = "apiError" /\ rb.todo # {}
    /\ lastPatch.answer = "accepted" /\ rb.polled = "nil" /\ external = {}
    /\ resourceOf(backendServices, lastPatch.name, lastPatch.region).backends
          = [i \in DOMAIN lastPatch.body |-> storedBackend(lastPatch.body[i])]
    /\ lastPatch.body # lastPatch.before

\* the pair under way moves backends from one backend service to another
moving(r) == upsertOf(r).name # removeOf(r).name /\ r.svcUpdated

\* the backend service the pair under way removes from holds none of the
\* backends to remove
removalApplied(store, r) ==
    \A i \in DOMAIN removeOf(r).backends :
        indexOfGroup(resourceOf(store, removeOf(r).name, removeOf(r).region).backends,
                     removeOf(r).backends[i].Group, 1) = 0

\* C27: when a pair moves backends to another backend service, the new
\* backend service is patched only after the patch of the old one was
\* accepted and its operation polled to DONE without error; a failure of
\* the old patch or of its polling returns without a patch of the new
\* backend service; when the patch of the new one or its polling fails, the
\* old backend service still lacks the removed backends, and nothing is
\* written after the return.
C27_OldPatchedBeforeNew ==
    [][/\ (rb.pc = "patchNew" /\ rb' # rb /\ moving(rb)) =>
             (/\ lastPatch.name = removeOf(rb).name
              /\ lastPatch.answer = "accepted"
              /\ operation.Status = "DONE" /\ ~operation.Error
              /\ rb.polled = "nil"
              /\ lastPatch'.name = upsertOf(rb).name)
       /\ (rb.pc \in {"patchOld", "pollOld"} /\ rb' # rb /\ rb'.err # "nil") =>
             (/\ rb'.pc = "returned"
              /\ lastPatch'.name = removeOf(rb).name
              /\ resourceOf(backendServices', upsertOf(rb).name, upsertOf(rb).region)
                    = resourceOf(backendServices, upsertOf(rb).name, upsertOf(rb).region))
       /\ (rb.pc \in {"patchNew", "pollNew"} /\ rb' # rb /\ rb'.err # "nil" /\ moving(rb)) =>
             (rb'.pc = "returned" /\ removalApplied(backendServices', rb))
       /\ (rb.pc = "returned") =>
             (backendServices' = backendServices /\ lastPatch' = lastPatch)]_vars

\* the patch of the new backend service was refused after the removal from
\* the old one was applied
C27_Witness ==
    /\ rb.pc = "returned" /\ rb.err = "preconditionFailed"
    /\ rb.port # "" /\ moving(rb)
    /\ removeOf(rb).backends # <<>>
    /\ lastPatch.name = upsertOf(rb).name
    /\ removalApplied(backendServices, rb)
    /\ [verb |-> "patch", name |-> removeOf(rb).name] \in apiCalls

(***************************************************************************)
(* Properties of a pass over a Service an earlier pass has reconciled      *)
(***************************************************************************)
\* C28: with AlwaysReconcile disabled, the pass that follows a pass which
\* applied the intended status and wrote the status annotation, over the
\* same annotations, returns nil without a backend-service API call and
\* without a Service update.
C28_SecondPassFindsNoDrift ==
    [][(/\ rec.pc = "idle" /\ rec.outcome = "statusWritten"
        /\ ~reconciler.AlwaysReconcile /\ ~svc.deleting
        /\ rec' # rec) =>
            (/\ rec'.pc = "idle" /\ rec'.err = "nil"
             /\ apiCalls' = {} /\ svc' = svc)]_vars

(***************************************************************************)
(* ReconcileBackends called twice with the same statuses, no other actor   *)
(* writing to the backend services.                                        *)
(***************************************************************************)
\* the second call, made when the first has returned nil; invocation keeps
\* what the first call returned and the backend services as it left them
ReconcileBackendsAgain ==
    /\ rb.pc = "returned"
    /\ rb.err = "nil"
    /\ invocation = NoCall
    /\ invocation' = [fn |-> "ReconcileBackends", args |-> <<actual, intended>>,
                      returned |-> TRUE,
                      result |-> [err |-> rb.err, backendServices |-> backendServices]]
    /\ rb' = rbCalled(actual, intended)
    /\ lastPatch' = NoPatch
    /\ apiCalls' = {}
    /\ operation' = NoOperation
    /\ UNCHANGED <<backendServices, actual, intended, external, svc, rec, events,
                   reconciler>>

NextTwice ==
    \/ (GetOld /\ UNCHANGED recVars)
    \/ (GetNew /\ UNCHANGED recVars)
    \/ (PatchOld /\ UNCHANGED recVars)
    \/ (PollOld /\ UNCHANGED recVars)
    \/ (PatchNew /\ UNCHANGED recVars)
    \/ (PollNew /\ UNCHANGED recVars)
    \/ (Return /\ UNCHANGED recVars)
    \/ ReconcileBackendsAgain

SpecTwice == InitRB /\ [][NextTwice]_vars

\* the backend lists of store are those the first call left
asFirstRunLeft(store) ==
    \A key \in DOMAIN store :
        /\ store[key].exists = invocation.result.backendServices[key].exists
        /\ store[key].backends = invocation.result.backendServices[key].backends

polling == rb.pc \in {"pollOld", "pollNew"}

\* C30: the polling of an operation ends: the operation function is run
\* fewer than MaxPolls times after the first, the run at which the time is
\* up and the operation is not DONE makes ReconcileBackends return the
\* error, and a call that is polling eventually is not polling any more.
C30_PollingTerminates ==
    /\ [](rb.polls < MaxPolls)
    /\ [][(/\ polling /\ rb' # rb /\ rb.polls + 1 >= MaxPolls
           /\ operation'.Status # "DONE") =>
                (/\ rb'.pc = "returned"
                 /\ rb'.err \in {"operation pending", "operation running", "apiError"})]_vars
    /\ (polling ~> ~polling)

\* the time was up with the operation still pending or running
C30_Witness ==
    /\ rb.pc = "returned"
    /\ rb.err \in {"operation pending", "operation running"}
    /\ rb.polls = MaxPolls - 1
    /\ operation.Status \in {"PENDING", "RUNNING"}

(***************************************************************************)
(* ReconcileBackends while the context of its caller is cancelled: the     *)
(* manager is started with the context of the signal handler, which is     *)
(* cancelled when the process is told to stop.                             *)
(***************************************************************************)
InitCtx ==
    /\ \E ns \in NEGStatusPairs, a80 \in ActualPort80, i80 \in IntendedPort80,
          p443 \in Port443 :
        /\ actual = AutonegStatus(BackendServicesOf(a80, p443), ns[1], <<>>)
        /\ intended = AutonegStatus(BackendServicesOf(i80, p443), ns[2], <<>>)
    /\ \E kinds \in StoreKinds : backendServices = storeFor(kinds, actual)
    /\ rb = rbCalled(actual, intended)
    /\ operation = NoOperation
    /\ lastPatch = NoPatch
    /\ apiCalls = {}
    /\ external = {}
    /\ svc = NoService
    /\ rec = [pc |-> "direct", ctx |-> [done |-> FALSE]]
    /\ events = {}
    /\ reconciler = <<>>
    /\ invocation = NoCall

\* the context of the caller is cancelled
CancelContext ==
    /\ ~rec.ctx.done
    /\ rec' = [rec EXCEPT !.ctx.done = TRUE]
    /\ UNCHANGED <<rbVars, svc, events, reconciler, invocation>>

NextCtx ==
    \/ (GetOld /\ UNCHANGED recVars)
    \/ (GetNew /\ UNCHANGED recVars)
    \/ (PatchOld /\ UNCHANGED recVars)
    \/ (PollOld /\ UNCHANGED recVars)
    \/ (PatchNew /\ UNCHANGED recVars)
    \/ (PollNew /\ UNCHANGED recVars)
    \/ (Return /\ UNCHANGED recVars)
    \/ CancelContext

SpecCtx == InitCtx /\ [][NextCtx]_vars

\* C31: when the context of the caller is cancelled while an operation is
\* being polled, the next step of the polling loop is to stop and return an
\* error: the operation is not polled again
C31_CancelStopsPolling ==
    [][(polling /\ rec.ctx.done /\ rb' # rb)
        => (rb'.pc = "returned" /\ rb'.err = "context canceled" /\ operation' = operation)]_vars

\* C32: when the upsert bundle names another backend service than the
\* remove bundle and that backend service is not found, the fetch does not
\* end ReconcileBackends with errNotFound: the call goes on with an empty
\* resource for the upsert target
C32_MissingUpsertTargetTolerated ==
    [][(/\ rb.pc = "getNew"
        /\ rb' # rb
        /\ ~resourceOf(backendServices, upsertOf(rb).name, upsertOf(rb).region).exists)
        => (/\ rb'.err \in {"nil", "apiError"}
            /\ rb'.err = "nil" => (rb'.pc # "returned" /\ rb'.newFetched = <<>>))]_vars

(***************************************************************************)
(* The result of a pass whose update of the Service failed                 *)
(***************************************************************************)
\* the values of --reconcile-period, in seconds; it is zero when not set
ReconcilePeriods == {0, 600}

\* reconcileResult: Result.RequeueAfter of every return of Reconcile
requeueAfter(r, period) == IF r.AlwaysReconcile THEN period ELSE 0

\* C33: a pass whose update of the Service fails either records no event,
\* returns no error and asks for a requeue after 1 second (update conflict),
\* or records a Warning event and returns the error (any other error)
C33_ConflictRequeuedQuietly ==
    [][(rec.pc = "backends" /\ rec'.pc = "idle" /\ rec'.outcome = "updateError")
        => \/ /\ events' = {}
              /\ rec'.err = "nil"
              /\ \A period \in ReconcilePeriods : requeueAfter(reconciler, period) = 1
           \/ /\ events' = {<<"Warning", "BackendError">>}
              /\ rec'.err # "nil"]_vars

(***************************************************************************)
(* The bundles of ReconcileStatus                                          *)
(***************************************************************************)
\* C34: ReconcileStatus returns an upsert bundle and a remove bundle for
\* every backend-service entry of every port of the intended status; the
\* upsert bundle holds the intended groups of the port (none when the port
\* has no group), and the remove bundle of an entry the actual status lacks
\* is empty and targets the intended name
C34_BundlesForEveryIntendedEntry ==
    returnedFrom("ReconcileStatus") =>
        LET A == invocation.args[1]
            I == invocation.args[2]
            r == invocation.result
        IN  \A port \in DOMAIN I.BackendServices :
            \A k \in DOMAIN I.BackendServices[port] :
                /\ port \in DOMAIN r.upserts
                /\ port \in DOMAIN r.removes
                /\ k \in DOMAIN r.upserts[port]
                /\ k \in DOMAIN r.removes[port]
                /\ holdsExactly(r.upserts[port][k], urlsOfPort(I, port))
                /\ k \notin DOMAIN Lookup(A.BackendServices, port, <<>>) =>
                      /\ r.removes[port][k].backends = <<>>
                      /\ r.removes[port][k].name = I.BackendServices[port][k].Name

\* C35: the remove bundle of an entry that the actual and the intended
\* status both have holds the actual groups of the port that are not
\* intended and targets the intended name, when the actual status records
\* the intended name or no name; otherwise it holds all actual groups of
\* the port and targets the name and region the actual status records
C35_RemoveBundleDiffOrAll ==
    returnedFrom("ReconcileStatus") =>
        LET A == invocation.args[1]
            I == invocation.args[2]
            r == invocation.result
        IN  \A port \in DOMAIN A.BackendServices \cap DOMAIN I.BackendServices
                          \cap DOMAIN r.removes :
            \A k \in DOMAIN A.BackendServices[port] \cap DOMAIN I.BackendServices[port]
                        \cap DOMAIN r.removes[port] :
                LET a == A.BackendServices[port][k]
                    i == I.BackendServices[port][k]
                    remove == r.removes[port][k]
                IN  IF a.Name = i.Name \/ a.Name = ""
                    THEN /\ remove.name = i.Name
                         /\ holdsExactly(remove, urlsOfPort(A, port) \ urlsOfPort(I, port))
                    ELSE /\ remove.name = a.Name
                         /\ remove.region = a.Region
                         /\ holdsExactly(remove, urlsOfPort(A, port))

\* an entry that stays on its backend service while the port loses the
\* group of a zone, the other group staying intended
C35_Witness ==
    /\ returnedFrom("ReconcileStatus")
    /\ invocation.args[1].Zones = <<1, 2>>
    /\ invocation.args[2].Zones = <<1>>
    /\ "80" \in DOMAIN invocation.args[1].NEGs \cap DOMAIN invocation.args[2].NEGs
    /\ "80" \in DOMAIN invocation.args[1].BackendServices
    /\ "80" \in DOMAIN invocation.args[2].BackendServices
    /\ "a" \in DOMAIN invocation.args[1].BackendServices["80"]
    /\ "a" \in DOMAIN invocation.args[2].BackendServices["80"]
    /\ invocation.args[1].BackendServices["80"]["a"].Name = "a"
    /\ invocation.args[2].BackendServices["80"]["a"].Name = "a"
    /\ invocation.result.removes["80"]["a"].name = "a"
    /\ Len(invocation.result.removes["80"]["a"].backends) = 1

(***************************************************************************)
(* The events of a teardown                                                *)
(***************************************************************************)
\* C36: a pass that tore down a Service being deleted and removed the
\* finalizer has recorded Normal "Delete" events, one for each backend
\* service the status of the Service recorded: at least one when the status
\* recorded a backend service
C36_DeleteEventsRecorded ==
    (/\ rec.pc = "idle"
     /\ rec.outcome = "finalizerRemoved"
     /\ pairsOf(actual.BackendServices) # {})
        => <<"Normal", "Delete">> \in events

(***************************************************************************)
(* TrimFieldsEvenly called on its own                                      *)
(***************************************************************************)
TrimMaxima == 1..6

\* fields of zero to four characters, up to three of them
TrimFields ==
    LET strings == {"", "a", "ab", "abc", "abcd"}
    IN  {<<>>} \cup {<<s>> : s \in strings} \cup (strings \X strings)
        \cup (strings \X strings \X strings)

InitTrim ==
    /\ idleButCall
    /\ \E max \in TrimMaxima, fields \in TrimFields :
          invocation = callOf("TrimFieldsEvenly", <<max, fields>>)

\* TrimFieldsEvenly(max, fields...): the fields returned, or the panic
CallTrimFieldsEvenly ==
    /\ calling("TrimFieldsEvenly")
    /\ invocation' =
          returned(IF panics(invocation.args[1], invocation.args[2])
                   THEN [panic |-> TRUE, fields |-> <<>>]
                   ELSE [panic |-> FALSE,
                         fields |-> TrimFieldsEvenly(invocation.args[1],
                                                     invocation.args[2])])
    /\ UNCHANGED <<rbVars, svc, rec, events, reconciler>>

NextTrim ==
    \/ CallTrimFieldsEvenly

SpecTrim == InitTrim /\ [][NextTrim]_vars

\* C37: TrimFieldsEvenly(max, fields) with max > 0 returns one prefix of
\* each field: the fields themselves when their total length is at most
\* max, and otherwise prefixes whose lengths add up to max, each the scaled
\* length of its field and one character more for the first fields
C37_PrefixesSummingToMax ==
    returnedFrom("TrimFieldsEvenly") =>
        LET max == invocation.args[1]
            fields == invocation.args[2]
            ret == invocation.result.fields
            total == sum([i \in DOMAIN fields |-> Len(fields[i])])
            scaled == [i \in DOMAIN fields |->
                         Len(fields[i]) - ((Len(fields[i]) * (total - max)) \div total) - 1]
        IN  /\ ~invocation.result.panic
            /\ Len(ret) = Len(fields)
            /\ \A i \in DOMAIN ret :
                  Len(ret[i]) <= Len(fields[i]) /\ ret[i] = SubSeq(fields[i], 1, Len(ret[i]))
            /\ total <= max => ret = fields
            /\ total > max =>
                  /\ sum([i \in DOMAIN ret |-> Len(ret[i])]) = max
                  /\ \E k \in 0..Len(ret) : \A i \in DOMAIN ret :
                        Len(ret[i]) = scaled[i] + (IF i <= k THEN 1 ELSE 0)

(***************************************************************************)
(* A Service in legacy mode over successive passes                         *)
(***************************************************************************)
\* C38: when a pass has written the status of a Service that carries the
\* legacy config annotation and not the current one, getStatuses on the
\* written Service reports it as managed, without error, with the
\* configuration it reported before the status was written
C38_LegacyServiceStaysManaged ==
    [][(/\ rec.pc = "backends"
        /\ rec'.pc = "idle"
        /\ rec'.outcome = "statusWritten"
        /\ oldAutonegAnnotation \in DOMAIN svc.annotations
        /\ autonegAnnotation \notin DOMAIN svc.annotations)
        => LET before == getStatuses(svcNamespace, svcName, svc.annotations, reconciler)
               after == getStatuses(svcNamespace, svcName, svc'.annotations, reconciler)
           IN  /\ after.valid
               /\ after.err = "nil"
               /\ after.config = before.config]_vars

(***************************************************************************)
(* The bundles ReconcileBackends looks up                                  *)
(***************************************************************************)
\* C39: every (port, key) under which ReconcileStatus returns a remove
\* bundle also has an upsert bundle, and that bundle names a backend
\* service
C39_UpsertForEveryRemove ==
    returnedFrom("ReconcileStatus") =>
        LET r == invocation.result
        IN  \A port \in DOMAIN r.removes : \A k \in DOMAIN r.removes[port] :
                /\ port \in DOMAIN r.upserts
                /\ k \in DOMAIN r.upserts[port]
                /\ r.upserts[port][k].name # ""

(***************************************************************************)
(* getStatuses on config annotations that list several backend services    *)
(* for a port                                                              *)
(***************************************************************************)
\* the lists of a port: up to two entries, named or not, of either rate
ConfigLists ==
    LET entries == {config(name, rate, 0) : name \in {"", "a", "b"}, rate \in {100, 50}}
    IN  {<<>>} \cup {<<e>> : e \in entries} \cup (entries \X entries)

\* the config annotations: a list for port 80, with or without a list for
\* port 443
ConfigDocuments ==
    {[port \in {"80"} |-> l] : l \in ConfigLists}
    \cup {[port \in {"80", "443"} |-> IF port = "80" THEN l ELSE <<config("a", 100, 0)>>] :
            l \in ConfigLists}

InitDecode ==
    /\ idleButCall
    /\ \E doc \in ConfigDocuments, r \in ServiceReconcilers :
          invocation = callOf("getStatuses",
                              <<annotated(<<negAnnotation, autonegAnnotation>>,
                                          <<<<jsonText({"80"})>>, <<jsonText(doc)>>>>),
                                r>>)

NextDecode ==
    \/ CallGetStatuses

SpecDecode == InitDecode /\ [][NextDecode]_vars

\* cfg.Name after "Default to name generated using serviceNameTemplate"
resultingName(cfg, port, r) ==
    IF cfg.Name = "" \/ ~r.AllowServiceName
    THEN generateServiceName(svcNamespace, svcName, port, r.ServiceNameTemplate)
    ELSE cfg.Name

\* C40, as stated: for every port of the config annotation the decoded
\* configuration has as many backend-service entries as the annotation
\* lists for the port
C40_AsManyEntriesAsListed ==
    (returnedFrom("getStatuses") /\ invocation.result.err = "nil") =>
        LET doc == invocation.args[1][autonegAnnotation].doc
            cfg == invocation.result.config
        IN  \A port \in DOMAIN doc :
                /\ port \in DOMAIN cfg
                /\ Cardinality(DOMAIN cfg[port]) = Len(doc[port])

\* C40, amended: for every port of the config annotation the decoded
\* configuration has one entry for each backend-service name the listed
\* entries end up with (the generated name when the name is omitted or
\* custom names are disabled), holding the last entry listed of that name;
\* it has as many entries as the list when these names are distinct
C40_OneEntryPerResultingName ==
    (returnedFrom("getStatuses") /\ invocation.result.err = "nil") =>
        LET doc == invocation.args[1][autonegAnnotation].doc
            r == invocation.args[2]
            cfg == invocation.result.config
        IN  \A port \in DOMAIN doc :
                /\ port \in DOMAIN cfg
                /\ DOMAIN cfg[port] =
                      {resultingName(doc[port][i], port, r) : i \in DOMAIN doc[port]}
                /\ \A i \in DOMAIN doc[port] :
                      (\A j \in DOMAIN doc[port] :
                          resultingName(doc[port][j], port, r)
                              = resultingName(doc[port][i], port, r) => j <= i)
                      => /\ cfg[port][resultingName(doc[port][i], port, r)].Rate
                               = doc[port][i].Rate
                         /\ cfg[port][resultingName(doc[port][i], port, r)].Name
                               = resultingName(doc[port][i], port, r)

\* two entries without a name are listed for port 80, and the decoded
\* configuration has the second one under the generated name
C40_Witness ==
    /\ returnedFrom("getStatuses")
    /\ invocation.result.err = "nil"
    /\ Len(invocation.args[1][autonegAnnotation].doc["80"]) = 2
    /\ invocation.args[1][autonegAnnotation].doc["80"][1].Name = ""
    /\ invocation.args[1][autonegAnnotation].doc["80"][2].Name = ""
    /\ invocation.args[1][autonegAnnotation].doc["80"][1].Rate = 100
    /\ invocation.args[1][autonegAnnotation].doc["80"][2].Rate = 50
    /\ DOMAIN invocation.result.config["80"] = {generatedName}
    /\ invocation.result.config["80"][generatedName].Rate = 50

=============================================================================
